---- MODULE Spec2Model ----
(***************************************************************************)
(* temporal_tables: the per-session stack of temporal contexts             *)
(* (temporal_tables.c) and the versioning trigger (versioning.c), driven   *)
(* by the host's transaction manager and row-modification protocol.        *)
(*                                                                         *)
(* One session, one versioned relation holding one row identity, and its   *)
(* history relation.  Timestamps are the integer (microsecond count)       *)
(* representation, scaled from 64 to TsBits bits, two's complement.        *)
(***************************************************************************)
EXTENDS Integers, Sequences, FiniteSets, TLC

(***************************************************************************)
(* Bounds of the model.                                                    *)
(***************************************************************************)
\* width of a timestamp in bits (int64 in the program)
TsBits == 3
\* context-stack specification: transactions begun, highest subtransaction
\* id handed out in one transaction, set_system_time calls recorded
CtxMaxXacts == 2
CtxMaxSubId == 4
CtxMaxSets == 3
\* trigger specification: transactions begun
MaxXacts == 2
\* nesting specification: transactions begun, highest subtransaction id
NestMaxXacts == 2
NestMaxSubId == 3
\* cache specification: transactions begun
CacheMaxXacts == 4
\* two-backend specification: transactions begun by the session, by the peer
TwoMaxXacts == 2
TwoMaxPeerXacts == 1

VARIABLES
    \* ---- host: transaction manager ----
    xactNo,             \* top-level transactions begun; the current one's id
    inXact,             \* a top-level transaction is in progress
    subStack,           \* active SubTransactionIds, innermost first
    subCounter,         \* currentSubTransactionId: last id handed out
    xactStartTs,        \* GetCurrentTransactionStartTimestamp()
    failed,             \* an ERROR was raised; only a rollback is accepted
    saved,              \* per active level, the tables as they were at its start
    \* ---- temporal_tables.c ----
    temporal_contexts,  \* the TemporalContext stack, top first
    \* ---- versioning.c ----
    versioning_cache,   \* the VersioningHashEntry of the versioned relation
    \* ---- host: the catalog and the two relations ----
    catalog,            \* live tuple descriptors and the history relation's OID
    spiPlans,           \* plans SPI_prepare has returned; the next is spiPlans + 1
    row,                \* the versioned relation's row
    history,            \* the history relation's rows, in insertion order
    \* ---- what the last trigger call was given and returned ----
    last,
    \* ---- history variable: the set_system_time calls still in effect ----
    setLog,
    \* ---- history variable: per active level, the stack when it began ----
    begun,
    \* ---- history variable: the last event and the stack it found ----
    lastEvent,
    \* ---- the eager stack: one (mode, time) per nesting level, top first ----
    eager,
    \* ---- host: a second backend, its transaction and its own cache ----
    peer

vars == <<xactNo, inXact, subStack, subCounter, xactStartTs, failed, saved,
          temporal_contexts, versioning_cache, catalog, spiPlans, row,
          history, last,
          setLog, begun, lastEvent, eager, peer>>

ghostVars == <<setLog, begun, lastEvent, eager>>

hostVars == <<xactNo, inXact, subStack, subCounter, xactStartTs, failed, saved>>
tableVars == <<row, history>>

(***************************************************************************)
(* Timestamps.                                                             *)
(***************************************************************************)
TsModulus == 2 ^ TsBits
TsMax == 2 ^ (TsBits - 1) - 1          \* DT_NOEND, 'infinity'
TsMin == -(2 ^ (TsBits - 1))           \* DT_NOBEGIN, '-infinity'
Timestamps == TsMin .. TsMax
\* transaction start timestamps: two readings of the clock
ClockVals == {0, 1}
\* times passed to set_system_time: one after every clock value, and 'infinity'
UserTimes == {2, TsMax}
\* an argument of set_system_time: PG_ARGISNULL(0) and PG_GETARG_TIMESTAMPTZ(0)
NullArg == [isnull |-> TRUE, value |-> 0]
TimeArg(t) == [isnull |-> FALSE, value |-> t]
CtxSetArgs == {NullArg} \cup {TimeArg(t) : t \in UserTimes}
SetArgs == {NullArg, TimeArg(TsMax)}

\* (TimestampTz) ((int64) x): the value kept to the width of the type
WrapTs(x) == ((x - TsMin) % TsModulus) + TsMin

(***************************************************************************)
(* temporal_tables.h / temporal_tables.c                                   *)
(***************************************************************************)
InvalidSubTransactionId == 0
TopSubTransactionId == 1
CurrentTransactionStartTimestamp == "CurrentTransactionStartTimestamp"
UserDefined == "UserDefined"

TemporalContext(subid, mode, time) ==
    [subid |-> subid, system_time_mode |-> mode, system_time |-> time]

\* _PG_init: palloc0, then mode and subid
RootContext == TemporalContext(InvalidSubTransactionId,
                               CurrentTransactionStartTimestamp, 0)

copy_temporal_context(src, subid) == [src EXCEPT !.subid = subid]

push_temporal_context(contexts, subid) ==
    <<copy_temporal_context(Head(contexts), subid)>> \o contexts

\* get_current_temporal_context without the push of lines 174-178
get_current_temporal_context_never_pushes(contexts, will_modify, cursubid) ==
    contexts

\* get_current_temporal_context without the test of line 175
get_current_temporal_context_always_pushes(contexts, will_modify, cursubid) ==
    IF ~will_modify THEN contexts
    ELSE push_temporal_context(contexts, cursubid)

\* get_current_temporal_context handing out the root context to the top
\* level of a transaction
get_current_temporal_context_hands_out_root(contexts, will_modify, cursubid) ==
    IF ~will_modify THEN contexts
    ELSE IF Head(contexts).subid = cursubid THEN contexts
    ELSE IF Len(contexts) = 1 /\ cursubid = TopSubTransactionId THEN contexts
    ELSE push_temporal_context(contexts, cursubid)

\* The stack after the call; the context returned is its head.
get_current_temporal_context(contexts, will_modify, cursubid) ==
    IF ~will_modify THEN contexts
    ELSE IF Head(contexts).subid = cursubid THEN contexts
    ELSE push_temporal_context(contexts, cursubid)

\* the callback without the copy into the root context on commit
temporal_tables_xact_callback_drops_on_commit(contexts, event) ==
    IF event \in {"XACT_EVENT_COMMIT", "XACT_EVENT_ABORT"}
    THEN IF Head(contexts).subid # InvalidSubTransactionId
         THEN Tail(contexts)
         ELSE contexts
    ELSE contexts

\* the callback copying into the root context on abort as on commit
temporal_tables_xact_callback_copies_on_abort(contexts, event) ==
    IF event \in {"XACT_EVENT_COMMIT", "XACT_EVENT_ABORT"}
    THEN LET ctx == Head(contexts) IN
         IF ctx.subid # InvalidSubTransactionId
         THEN <<copy_temporal_context(ctx, InvalidSubTransactionId)>>
              \o Tail(Tail(contexts))
         ELSE contexts
    ELSE contexts

temporal_tables_xact_callback(contexts, event) ==
    IF event \in {"XACT_EVENT_COMMIT", "XACT_EVENT_ABORT"}
    THEN LET ctx == Head(contexts) IN
         IF ctx.subid # InvalidSubTransactionId
         THEN LET popped == Tail(contexts) IN
              IF event = "XACT_EVENT_COMMIT"
              THEN <<copy_temporal_context(ctx, InvalidSubTransactionId)>>
                   \o Tail(popped)
              ELSE popped
         ELSE contexts
    ELSE contexts

\* the merge that relabels in place whatever the parent holds
SubCommitMerge_always_relabels(contexts, parentSubid) ==
    <<[Head(contexts) EXCEPT !.subid = parentSubid]>> \o Tail(contexts)

\* the merge that leaves the context under the committed id when the parent
\* has none
SubCommitMerge_keeps_label(contexts, parentSubid) ==
    IF contexts[2].subid # parentSubid
    THEN contexts
    ELSE <<copy_temporal_context(Head(contexts), parentSubid)>>
         \o Tail(Tail(contexts))

\* the merge that discards the committing level's context
SubCommitMerge_drops_child(contexts, parentSubid) == Tail(contexts)

\* on COMMIT_SUB with the top context belonging to the committing level
SubCommitMerge(contexts, parentSubid) ==
    LET ctx == Head(contexts)
        parent_ctx == contexts[2]
    IN  IF parent_ctx.subid # parentSubid
        THEN <<[ctx EXCEPT !.subid = parentSubid]>> \o Tail(contexts)
        ELSE <<copy_temporal_context(ctx, parentSubid)>> \o Tail(Tail(contexts))

\* the callback that leaves the aborting level's context on the stack
temporal_tables_subxact_callback_keeps_on_abort(contexts, event, mySubid, parentSubid, cursubid) ==
    IF event = "SUBXACT_EVENT_COMMIT_SUB" /\ Head(contexts).subid = cursubid
    THEN SubCommitMerge(contexts, parentSubid)
    ELSE contexts

\* the callback that does nothing on a subtransaction's commit
temporal_tables_subxact_callback_ignores_commit(contexts, event, mySubid, parentSubid, cursubid) ==
    IF event = "SUBXACT_EVENT_ABORT_SUB" /\ Head(contexts).subid = cursubid
    THEN Tail(contexts)
    ELSE contexts

temporal_tables_subxact_callback(contexts, event, mySubid, parentSubid, cursubid) ==
    IF event \in {"SUBXACT_EVENT_COMMIT_SUB", "SUBXACT_EVENT_ABORT_SUB"}
    THEN IF Head(contexts).subid = cursubid
         THEN IF event = "SUBXACT_EVENT_ABORT_SUB"
              THEN Tail(contexts)
              ELSE SubCommitMerge(contexts, parentSubid)
         ELSE contexts
    ELSE contexts

(***************************************************************************)
(* versioning.c: set_system_time, get_system_time                          *)
(***************************************************************************)
\* set_system_time writing to the top context whatever level it belongs to
set_system_time_writes_top(contexts, arg, cursubid) ==
    LET ctx == Head(contexts)
    IN  IF arg.isnull
        THEN <<[ctx EXCEPT !.system_time_mode = CurrentTransactionStartTimestamp]>>
             \o Tail(contexts)
        ELSE <<[ctx EXCEPT !.system_time_mode = UserDefined,
                           !.system_time = arg.value]>> \o Tail(contexts)

set_system_time(contexts, arg, cursubid) ==
    LET after == get_current_temporal_context(contexts, TRUE, cursubid)
        ctx == Head(after)
    IN  IF arg.isnull
        THEN <<[ctx EXCEPT !.system_time_mode = CurrentTransactionStartTimestamp]>>
             \o Tail(after)
        ELSE <<[ctx EXCEPT !.system_time_mode = UserDefined,
                           !.system_time = arg.value]>> \o Tail(after)

get_system_time(contexts, startTs, cursubid) ==
    LET ctx == Head(get_current_temporal_context(contexts, FALSE, cursubid))
    IN  IF ctx.system_time_mode = CurrentTransactionStartTimestamp
        THEN startTs
        ELSE ctx.system_time

(***************************************************************************)
(* Host: range values (utils/rangetypes) as the trigger uses them.         *)
(* A RangeBound is val, infinite, inclusive, lower.                        *)
(***************************************************************************)
RangeBound(val, infinite, inclusive, lower) ==
    [val |-> val, infinite |-> infinite, inclusive |-> inclusive, lower |-> lower]

Unbounded(lower) == RangeBound(0, TRUE, FALSE, lower)

\* a datum of the period column: SQL NULL, or a range (empty or two bounds)
NullPeriod == [isnull |-> TRUE, empty |-> FALSE,
               lower |-> Unbounded(TRUE), upper |-> Unbounded(FALSE)]
EmptyRange == [isnull |-> FALSE, empty |-> TRUE,
               lower |-> Unbounded(TRUE), upper |-> Unbounded(FALSE)]
Range(lower, upper) == [isnull |-> FALSE, empty |-> FALSE,
                        lower |-> lower, upper |-> upper]
\* "[t, )"
OpenEnded(t) == Range(RangeBound(t, FALSE, TRUE, TRUE), Unbounded(FALSE))

\* range_cmp_bound_values: the bounds' values alone
range_cmp_bound_values(b1, b2) ==
    IF b1.infinite /\ b2.infinite
    THEN (IF b1.lower = b2.lower THEN 0 ELSE IF b1.lower THEN -1 ELSE 1)
    ELSE IF b1.infinite THEN (IF b1.lower THEN -1 ELSE 1)
    ELSE IF b2.infinite THEN (IF b2.lower THEN 1 ELSE -1)
    ELSE IF b1.val < b2.val THEN -1
    ELSE IF b1.val > b2.val THEN 1
    ELSE 0

\* range_cmp_bounds: values, then inclusivity
range_cmp_bounds(b1, b2) ==
    LET result == range_cmp_bound_values(b1, b2) IN
    IF b1.infinite \/ b2.infinite \/ result # 0 THEN result
    ELSE IF ~b1.inclusive /\ ~b2.inclusive
         THEN (IF b1.lower = b2.lower THEN 0 ELSE IF b1.lower THEN 1 ELSE -1)
    ELSE IF ~b1.inclusive THEN (IF b1.lower THEN 1 ELSE -1)
    ELSE IF ~b2.inclusive THEN (IF b2.lower THEN -1 ELSE 1)
    ELSE 0

\* make_range(typcache, lower, upper, false): an ERROR when lower > upper,
\* the empty range when the bounds meet without both being inclusive;
\* an infinite bound is stored without value or inclusivity
make_range(lower, upper) ==
    LET cmp == range_cmp_bound_values(lower, upper)
        Stored(b) == IF b.infinite THEN Unbounded(b.lower) ELSE b
    IN  IF cmp > 0
        THEN [ok |-> FALSE, range |-> NullPeriod]
        ELSE IF cmp = 0 /\ ~(lower.inclusive /\ upper.inclusive)
        THEN [ok |-> TRUE, range |-> EmptyRange]
        ELSE [ok |-> TRUE, range |-> Range(Stored(lower), Stored(upper))]

(***************************************************************************)
(* Host: rows.  A tuple of the versioned relation is its data column, its  *)
(* period column and xmin, the transaction that wrote it.                  *)
(***************************************************************************)
\* a row of the versioned relation: xmin and the values of its attributes
\* 1 (data), 2 (the period column) and 3 (a second range column)
TupleWith(xmin, data, period, alt) ==
    [xmin |-> xmin, data |-> data, period |-> period, alt |-> alt]

Tuple(xmin, data, period) == TupleWith(xmin, data, period, NullPeriod)

\* SPI_getbinval(tuple, tupdesc, attnum)
TupleValue(tuple, attnum) ==
    IF attnum = 1 THEN tuple.data
    ELSE IF attnum = 2 THEN tuple.period
    ELSE tuple.alt
NoTuple == Tuple(0, "", NullPeriod)

\* heap_modify_tuple_by_cols / SPI_modifytuple on the period column
modify_tuple(tuple, period_attnum, range) ==
    IF period_attnum = 2 THEN [tuple EXCEPT !.period = range]
    ELSE [tuple EXCEPT !.alt = range]

\* TransactionIdIsCurrentTransactionId(HeapTupleHeaderGetXmin(tuple)): the
\* tuple was written by the transaction in progress (a rolled-back
\* subtransaction's tuples are gone with it)
modified_in_current_transaction(tuple, curxid) == tuple.xmin = curxid

(***************************************************************************)
(* versioning.c: results of the trigger's steps.  ereport(ERROR) leaves    *)
(* the step at once; ereport(WARNING) goes on.                             *)
(***************************************************************************)
Ok == "ok"
ConflictError == "ERRCODE_DATA_EXCEPTION: modified by another transaction"
AdjustArgError == "ERRCODE_INVALID_PARAMETER_VALUE: adjust"
NullPeriodError == "ERRCODE_NULL_VALUE_NOT_ALLOWED"
InvalidPeriodError == "ERRCODE_DATA_EXCEPTION: invalid value"
RangeBoundsError == "range lower bound must be less than or equal to range upper bound"
NoHistoryPeriodError == "history relation does not contain system period column"
TypeMismatchError == "ERRCODE_DATATYPE_MISMATCH"

\* pg_strcasecmp(arg, s) == 0 for the strings the model passes
LowerCase(arg) ==
    CASE arg = "TRUE" -> "true"
      [] arg = "False" -> "false"
      [] OTHER -> arg

parse_adjust_argument(arg) ==
    IF LowerCase(arg) = "true" THEN [status |-> Ok, value |-> TRUE]
    ELSE IF LowerCase(arg) = "false" THEN [status |-> Ok, value |-> FALSE]
    ELSE [status |-> AdjustArgError, value |-> FALSE]

\* integer datetimes: (TimestampTz) ((int64) timestamp + 1)
next_timestamp(timestamp) == WrapTs(timestamp + 1)

\* deserialize_system_period without the check of line 776
deserialize_system_period_accepts_any_range(tuple, period_attnum) ==
    LET period == TupleValue(tuple, period_attnum)
    IN  IF period.isnull
        THEN [status |-> NullPeriodError, lower |-> Unbounded(TRUE),
              upper |-> Unbounded(FALSE)]
        ELSE [status |-> Ok, lower |-> period.lower, upper |-> period.upper]

deserialize_system_period(tuple, period_attnum) ==
    LET period == TupleValue(tuple, period_attnum)
    IN  IF period.isnull
        THEN [status |-> NullPeriodError, lower |-> Unbounded(TRUE),
              upper |-> Unbounded(FALSE)]
        ELSE IF period.empty \/ ~period.upper.infinite
        THEN [status |-> InvalidPeriodError, lower |-> period.lower,
              upper |-> period.upper]
        ELSE [status |-> Ok, lower |-> period.lower, upper |-> period.upper]

\* lines 847-866: the bounds do not leave a period
AdjustConflict(adjust, lower, upper) ==
    IF adjust.status # Ok
    THEN [status |-> adjust.status, warning |-> FALSE, upper |-> upper]
    ELSE IF ~adjust.value
    THEN [status |-> ConflictError, warning |-> FALSE, upper |-> upper]
    ELSE [status |-> Ok, warning |-> TRUE,
          upper |-> [upper EXCEPT !.val = next_timestamp(lower.val)]]

\* adjust_system_period asking whether the lower value is greater than the
\* upper value, where line 845 asks range_cmp_bounds(...) >= 0
adjust_system_period_values_greater(lower, upper, adjust_argument) ==
    IF range_cmp_bound_values(lower, upper) > 0
    THEN AdjustConflict(parse_adjust_argument(adjust_argument), lower, upper)
    ELSE [status |-> Ok, warning |-> FALSE, upper |-> upper]

\* adjust_system_period without the comparison of lines 845-866
adjust_system_period_never_adjusts(lower, upper, adjust_argument) ==
    [status |-> Ok, warning |-> FALSE, upper |-> upper]

adjust_system_period(lower, upper, adjust_argument) ==
    IF range_cmp_bounds(lower, upper) >= 0
    THEN AdjustConflict(parse_adjust_argument(adjust_argument), lower, upper)
    ELSE [status |-> Ok, warning |-> FALSE, upper |-> upper]

(***************************************************************************)
(* Host: the catalog.  A tuple descriptor is the sequence of a relation's  *)
(* attributes; attnum is the position.  In both relations attribute 1 is   *)
(* the data column and attribute 2 the period column.                      *)
(***************************************************************************)
Attribute(attname, atttypid, atttypmod, attndims, attisdropped) ==
    [attname |-> attname, atttypid |-> atttypid, atttypmod |-> atttypmod,
     attndims |-> attndims, attisdropped |-> attisdropped]

SPI_ERROR_NOATTRIBUTE == -9

\* SPI_fnumber: the first attribute of that name that is not dropped
SPI_fnumber(tupdesc, fname) ==
    LET hits == {i \in 1 .. Len(tupdesc) :
                    tupdesc[i].attname = fname /\ ~tupdesc[i].attisdropped}
    IN  IF hits = {} THEN SPI_ERROR_NOATTRIBUTE
        ELSE CHOOSE i \in hits : \A j \in hits : i <= j

\* a TupleDesc pointer of the cache entry
NullDesc == [null |-> TRUE, atts |-> << >>]
DescCopy(tupdesc) == [null |-> FALSE, atts |-> tupdesc]
equalTupleDescs(tupdesc, cached) == ~cached.null /\ cached.atts = tupdesc

\* an SPIPlanPtr: the pointer SPI_prepare returned (NULL on failure), the
\* INSERT's target and the history attributes it fills
NullPlanPtr == 0
NullPlan == [null |-> TRUE, ptr |-> NullPlanPtr, relid |-> 0,
             history_attnums |-> << >>]

NullData == "(null)"

(***************************************************************************)
(* versioning.c: the cache of the versioned relation and the history       *)
(* insert.                                                                 *)
(***************************************************************************)
\* hash_search(HASH_ENTER) on a miss: hash_entry_alloc zeroes, natts = -1
NewHashEntry ==
    [found |-> TRUE, natts |-> -1, history_relid |-> 0,
     tupdesc |-> NullDesc, history_tupdesc |-> NullDesc,
     attnums |-> << >>, insert_history_plan |-> NullPlan]

NoHashEntry == [NewHashEntry EXCEPT !.found = FALSE]

lookup_versioning_hash_entry(cache) ==
    IF cache.found THEN [found |-> TRUE, entry |-> cache]
    ELSE [found |-> FALSE, entry |-> NewHashEntry]

check_attr_type(attr, history_attr) ==
    ~(\/ attr.atttypid # history_attr.atttypid
      \/ attr.attndims # history_attr.attndims
      \/ attr.atttypmod # history_attr.atttypmod)

\* attributes of the versioned relation that the history relation has by name
CommonAttnums(tupdesc, history_tupdesc) ==
    LET Common(i) == /\ ~tupdesc[i].attisdropped
                     /\ SPI_fnumber(history_tupdesc, tupdesc[i].attname) >= 0
    IN  SelectSeq([i \in 1 .. Len(tupdesc) |-> i], Common)

\* the fill without the check of lines 467-472
fill_versioning_hash_entry_without_period_check(hash_entry, tupdesc, history_tupdesc, history_relid, period_attname, spi_plan) ==
    LET attnums == CommonAttnums(tupdesc, history_tupdesc)
        natts == Len(attnums)
        history_attnums ==
            [n \in 1 .. natts |->
                SPI_fnumber(history_tupdesc, tupdesc[attnums[n]].attname)]
    IN  IF \E n \in 1 .. natts :
               ~check_attr_type(tupdesc[attnums[n]],
                                history_tupdesc[history_attnums[n]])
        THEN [status |-> TypeMismatchError, entry |-> hash_entry]
        ELSE IF natts # 0 /\ spi_plan = NullPlanPtr
        THEN [status |-> "SPI_prepare returned NULL", entry |-> hash_entry]
        ELSE IF natts # 0
        THEN [status |-> Ok,
              entry |-> [hash_entry EXCEPT
                  !.insert_history_plan =
                      [null |-> FALSE, ptr |-> spi_plan,
                       relid |-> history_relid,
                       history_attnums |-> history_attnums],
                  !.history_relid = history_relid,
                  !.tupdesc = DescCopy(tupdesc),
                  !.history_tupdesc = DescCopy(history_tupdesc),
                  !.attnums = attnums,
                  !.natts = natts]]
        ELSE [status |-> Ok, entry |-> [hash_entry EXCEPT !.natts = natts]]

\* the fill with natts assigned before the plan is prepared
fill_versioning_hash_entry_marks_first(hash_entry, tupdesc, history_tupdesc, history_relid, period_attname, spi_plan) ==
    IF SPI_fnumber(history_tupdesc, period_attname) < 0
    THEN [status |-> NoHistoryPeriodError, entry |-> hash_entry]
    ELSE
    LET attnums == CommonAttnums(tupdesc, history_tupdesc)
        natts == Len(attnums)
        history_attnums ==
            [n \in 1 .. natts |->
                SPI_fnumber(history_tupdesc, tupdesc[attnums[n]].attname)]
    IN  IF \E n \in 1 .. natts :
               ~check_attr_type(tupdesc[attnums[n]],
                                history_tupdesc[history_attnums[n]])
        THEN [status |-> TypeMismatchError, entry |-> hash_entry]
        ELSE IF natts # 0 /\ spi_plan = NullPlanPtr
        THEN [status |-> "SPI_prepare returned NULL",
              entry |-> [hash_entry EXCEPT !.natts = natts]]
        ELSE IF natts # 0
        THEN [status |-> Ok,
              entry |-> [hash_entry EXCEPT
                  !.insert_history_plan =
                      [null |-> FALSE, ptr |-> spi_plan,
                       relid |-> history_relid,
                       history_attnums |-> history_attnums],
                  !.history_relid = history_relid,
                  !.tupdesc = DescCopy(tupdesc),
                  !.history_tupdesc = DescCopy(history_tupdesc),
                  !.attnums = attnums,
                  !.natts = natts]]
        ELSE [status |-> Ok, entry |-> [hash_entry EXCEPT !.natts = natts]]

fill_versioning_hash_entry(hash_entry, tupdesc, history_tupdesc, history_relid, period_attname, spi_plan) ==
    IF SPI_fnumber(history_tupdesc, period_attname) < 0
    THEN [status |-> NoHistoryPeriodError, entry |-> hash_entry]
    ELSE
    LET attnums == CommonAttnums(tupdesc, history_tupdesc)
        natts == Len(attnums)
        history_attnums ==
            [n \in 1 .. natts |->
                SPI_fnumber(history_tupdesc, tupdesc[attnums[n]].attname)]
    IN  IF \E n \in 1 .. natts :
               ~check_attr_type(tupdesc[attnums[n]],
                                history_tupdesc[history_attnums[n]])
        THEN [status |-> TypeMismatchError, entry |-> hash_entry]
        ELSE IF natts # 0 /\ spi_plan = NullPlanPtr
        THEN [status |-> "SPI_prepare returned NULL", entry |-> hash_entry]
        ELSE IF natts # 0
        THEN [status |-> Ok,
              entry |-> [hash_entry EXCEPT
                  !.insert_history_plan =
                      [null |-> FALSE, ptr |-> spi_plan,
                       relid |-> history_relid,
                       history_attnums |-> history_attnums],
                  !.history_relid = history_relid,
                  !.tupdesc = DescCopy(tupdesc),
                  !.history_tupdesc = DescCopy(history_tupdesc),
                  !.attnums = attnums,
                  !.natts = natts]]
        ELSE [status |-> Ok, entry |-> [hash_entry EXCEPT !.natts = natts]]

\* SPI_execp of the plan: the row the INSERT adds to the history relation
ExecutePlan(plan, attnums, tuple) ==
    LET n == Len(attnums)
        Filled(col) == {i \in 1 .. n : plan.history_attnums[i] = col}
        Param(col) == TupleValue(tuple, attnums[CHOOSE i \in Filled(col) : TRUE])
    IN  [data |-> IF Filled(1) = {} THEN NullData ELSE Param(1),
         period |-> IF Filled(2) = {} THEN NullPeriod ELSE Param(2)]

\* the check of lines 651-654 without the comparison of the versioned
\* relation's descriptor
CheckCachedEntry_ignores_tupdesc(hash_entry, tupdesc, history_tupdesc, history_relid) ==
    IF \/ hash_entry.natts = -1
       \/ history_relid # hash_entry.history_relid
       \/ ~equalTupleDescs(history_tupdesc, hash_entry.history_tupdesc)
    THEN [found |-> FALSE,
          entry |-> [hash_entry EXCEPT !.natts = -1,
                                       !.tupdesc = NullDesc,
                                       !.history_tupdesc = NullDesc,
                                       !.attnums = << >>,
                                       !.insert_history_plan = NullPlan]]
    ELSE [found |-> TRUE, entry |-> hash_entry]

\* the entry after the check of lines 651-688, and whether it was kept
CheckCachedEntry(hash_entry, tupdesc, history_tupdesc, history_relid) ==
    IF \/ hash_entry.natts = -1
       \/ history_relid # hash_entry.history_relid
       \/ ~equalTupleDescs(tupdesc, hash_entry.tupdesc)
       \/ ~equalTupleDescs(history_tupdesc, hash_entry.history_tupdesc)
    THEN [found |-> FALSE,
          entry |-> [hash_entry EXCEPT !.natts = -1,
                                       !.tupdesc = NullDesc,
                                       !.history_tupdesc = NullDesc,
                                       !.attnums = << >>,
                                       !.insert_history_plan = NullPlan]]
    ELSE [found |-> TRUE, entry |-> hash_entry]

\* the looked-up entry used without the validity check of lines 632-689
CheckedEntry_trusts_lookup(looked, cat) == looked

\* lines 632-689: the looked-up entry after the validity check
CheckedEntry(looked, cat) ==
    IF looked.found
    THEN CheckCachedEntry(looked.entry, cat.tupdesc, cat.history_tupdesc,
                          cat.history_relid)
    ELSE looked

\* lines 698-702: fill the entry unless a valid one was found
FilledEntry(checked, cat, period_attname, spi_plan) ==
    IF ~checked.found
    THEN fill_versioning_hash_entry(checked.entry, cat.tupdesc,
             cat.history_tupdesc, cat.history_relid, period_attname,
             spi_plan)
    ELSE [status |-> Ok, entry |-> checked.entry]

\* lines 704-734: execute the plan when there are common attributes
ExecuteInsert(filled, tuple) ==
    IF filled.status # Ok
    THEN [status |-> filled.status, entry |-> filled.entry, rows |-> << >>]
    ELSE IF filled.entry.natts # 0
    THEN [status |-> Ok, entry |-> filled.entry,
          rows |-> <<ExecutePlan(filled.entry.insert_history_plan,
                                 filled.entry.attnums, tuple)>>]
    ELSE [status |-> Ok, entry |-> filled.entry, rows |-> << >>]

\* status, the cache entry afterwards, and the rows added to the history
insert_history_row(tuple, cache, cat, period_attname, spi_plan) ==
    ExecuteInsert(
        FilledEntry(CheckedEntry(lookup_versioning_hash_entry(cache), cat),
                    cat, period_attname, spi_plan),
        tuple)

(***************************************************************************)
(* versioning.c: the trigger.  A call yields its status (Ok or the ERROR), *)
(* whether the WARNING was raised, the tuple returned, the rows added to   *)
(* the history relation and the cache entry afterwards.                    *)
(***************************************************************************)
Returned(tuple, warning, rows, entry) ==
    [status |-> Ok, warning |-> warning, ret |-> tuple, rows |-> rows,
     entry |-> entry]

Raised(error, warning, entry) ==
    [status |-> error, warning |-> warning, ret |-> NoTuple, rows |-> << >>,
     entry |-> entry]

\* versioning_insert with lower.inclusive = false where line 917 has true
versioning_insert_exclusive_lower(trigtuple, period_attnum, now, cache) ==
    Returned(modify_tuple(trigtuple, period_attnum,
                 make_range(RangeBound(now, FALSE, FALSE, TRUE),
                            Unbounded(FALSE)).range),
             FALSE, << >>, cache)

versioning_insert(trigtuple, period_attnum, now, cache) ==
    Returned(modify_tuple(trigtuple, period_attnum,
                 make_range(RangeBound(now, FALSE, TRUE, TRUE),
                            Unbounded(FALSE)).range),
             FALSE, << >>, cache)

\* The history row of an update or a delete (lines 962-980, 1024-1042),
\* step by step: status, WARNING raised, the closing bound, the rows added
\* to the history relation and the cache entry afterwards.
Archived(status, warning, upper, rows, entry) ==
    [status |-> status, warning |-> warning, upper |-> upper, rows |-> rows,
     entry |-> entry]

\* upper.val = get_system_time(); upper.infinite = false; upper.inclusive = false
ClosingBound(upper, now) ==
    [upper EXCEPT !.val = now, !.infinite = FALSE, !.inclusive = FALSE]

ArchiveInserted(inserted, adjusted) ==
    Archived(inserted.status, adjusted.warning, adjusted.upper, inserted.rows,
             inserted.entry)

ArchiveRange(range, adjusted, tuple, period_attnum, cache, cat, period_attname, spi_plan) ==
    IF ~range.ok
    THEN Archived(RangeBoundsError, adjusted.warning, adjusted.upper, << >>,
                  cache)
    ELSE ArchiveInserted(
             insert_history_row(modify_tuple(tuple, period_attnum, range.range), cache, cat,
                                period_attname, spi_plan),
             adjusted)

ArchiveAdjusted(adjusted, lower, tuple, period_attnum, cache, cat, period_attname, spi_plan) ==
    IF adjusted.status # Ok
    THEN Archived(adjusted.status, FALSE, adjusted.upper, << >>, cache)
    ELSE ArchiveRange(make_range(lower, adjusted.upper), adjusted, tuple, period_attnum,
                      cache, cat, period_attname, spi_plan)

ArchiveDeserialized(period, tuple, period_attnum, now, cache, cat, period_attname, adjust_argument, spi_plan) ==
    IF period.status # Ok
    THEN Archived(period.status, FALSE, period.upper, << >>, cache)
    ELSE ArchiveAdjusted(
             adjust_system_period(period.lower,
                                  ClosingBound(period.upper, now),
                                  adjust_argument),
             period.lower, tuple, period_attnum, cache, cat, period_attname, spi_plan)

ArchiveOldRow(tuple, period_attnum, now, cache, cat, period_attname, adjust_argument, spi_plan) ==
    ArchiveDeserialized(deserialize_system_period(tuple, period_attnum), tuple, period_attnum, now, cache,
                        cat, period_attname, adjust_argument, spi_plan)

\* lines 982-992: the period of the current row, "[upper, )"
CurrentPeriod(upper) ==
    make_range(RangeBound(upper.val, FALSE, TRUE, TRUE),
               [upper EXCEPT !.infinite = TRUE, !.inclusive = FALSE]).range

UpdateArchived(archived, newtuple, period_attnum) ==
    IF archived.status # Ok
    THEN Raised(archived.status, archived.warning, archived.entry)
    ELSE Returned(modify_tuple(newtuple, period_attnum, CurrentPeriod(archived.upper)),
                  archived.warning, archived.rows, archived.entry)

\* versioning_update without the check of lines 959-960
versioning_update_without_skip(trigtuple, newtuple, period_attnum, now, curxid, cache, cat, period_attname, adjust_argument, spi_plan) ==
    UpdateArchived(
        ArchiveOldRow(trigtuple, period_attnum, now, cache, cat, period_attname,
                      adjust_argument, spi_plan),
        newtuple, period_attnum)

\* versioning_update archiving tg_newtuple where line 977 has the old tuple
versioning_update_archives_new_image(trigtuple, newtuple, period_attnum, now, curxid, cache, cat, period_attname, adjust_argument, spi_plan) ==
    IF modified_in_current_transaction(trigtuple, curxid)
    THEN Returned(newtuple, FALSE, << >>, cache)
    ELSE UpdateArchived(
             ArchiveOldRow(modify_tuple(newtuple, period_attnum, TupleValue(trigtuple, period_attnum)), period_attnum, now,
                           cache, cat, period_attname, adjust_argument,
                           spi_plan),
             newtuple, period_attnum)

versioning_update(trigtuple, newtuple, period_attnum, now, curxid, cache, cat, period_attname, adjust_argument, spi_plan) ==
    IF modified_in_current_transaction(trigtuple, curxid)
    THEN Returned(newtuple, FALSE, << >>, cache)
    ELSE UpdateArchived(
             ArchiveOldRow(trigtuple, period_attnum, now, cache, cat, period_attname,
                           adjust_argument, spi_plan),
             newtuple, period_attnum)

DeleteArchived(archived, trigtuple) ==
    IF archived.status # Ok
    THEN Raised(archived.status, archived.warning, archived.entry)
    ELSE Returned(trigtuple, archived.warning, archived.rows, archived.entry)

\* versioning_delete without the check of lines 1020-1022
versioning_delete_without_skip(trigtuple, period_attnum, now, curxid, cache, cat, period_attname, adjust_argument, spi_plan) ==
    DeleteArchived(
        ArchiveOldRow(trigtuple, period_attnum, now, cache, cat, period_attname,
                      adjust_argument, spi_plan),
        trigtuple)

versioning_delete(trigtuple, period_attnum, now, curxid, cache, cat, period_attname, adjust_argument, spi_plan) ==
    IF modified_in_current_transaction(trigtuple, curxid)
    THEN Returned(trigtuple, FALSE, << >>, cache)
    ELSE DeleteArchived(
             ArchiveOldRow(trigtuple, period_attnum, now, cache, cat, period_attname,
                           adjust_argument, spi_plan),
             trigtuple)

\* versioning(): the checks of lines 211-278, then the dispatch
versioning(event, trigtuple, newtuple, tgargs, now, curxid, cache, cat, spi_plan) ==
    LET period_attname == tgargs[1]
        period_attnum == SPI_fnumber(cat.tupdesc, period_attname)
    IN  IF event \notin {"INSERT", "UPDATE", "DELETE"}
        THEN Raised("ERRCODE_E_R_I_E_TRIGGER_PROTOCOL_VIOLATED", FALSE, cache)
        ELSE IF Len(tgargs) # 3
        THEN Raised("ERRCODE_INVALID_PARAMETER_VALUE: parameters", FALSE, cache)
        ELSE IF period_attnum = SPI_ERROR_NOATTRIBUTE
        THEN Raised("ERRCODE_UNDEFINED_COLUMN", FALSE, cache)
        ELSE IF cat.tupdesc[period_attnum].attndims # 0
        THEN Raised("ERRCODE_DATATYPE_MISMATCH: array", FALSE, cache)
        ELSE IF cat.tupdesc[period_attnum].atttypid # "tstzrange"
        THEN Raised("ERRCODE_DATATYPE_MISMATCH: not a range of timestamptz",
                    FALSE, cache)
        ELSE IF event = "INSERT"
        THEN versioning_insert(trigtuple, period_attnum, now, cache)
        ELSE IF event = "UPDATE"
        THEN versioning_update(trigtuple, newtuple, period_attnum, now, curxid, cache, cat,
                               period_attname, tgargs[3], spi_plan)
        ELSE versioning_delete(trigtuple, period_attnum, now, curxid, cache, cat,
                               period_attname, tgargs[3], spi_plan)

(***************************************************************************)
(* Host: the relations as created, the trigger as declared, and the        *)
(* statements of the session.                                              *)
(***************************************************************************)
PeriodColumn == "sys_period"
HistoryRelation == "hist"
HistoryRelid == 2

\* a second range column of the versioned relation, absent from the history
AltPeriodColumn == "alt_period"

\* the descriptors of the two relations, and what the trigger's declaration
\* names: the period column (tgargs[0]) and the history relation's OID
InitialCatalog ==
    [tupdesc |-> <<Attribute("data", "text", -1, 0, FALSE),
                   Attribute(PeriodColumn, "tstzrange", -1, 0, FALSE),
                   Attribute(AltPeriodColumn, "tstzrange", -1, 0, FALSE)>>,
     history_tupdesc |-> <<Attribute("data", "text", -1, 0, FALSE),
                           Attribute(PeriodColumn, "tstzrange", -1, 0, FALSE)>>,
     history_relid |-> HistoryRelid,
     period_attname |-> PeriodColumn]

InsertData == {"a"}
UpdateData == {"a", "b"}
AdjustArgs == {"true", "False", "on"}
\* period values an UPDATE statement may assign to the period column
AssignedPeriods ==
    {NullPeriod, EmptyRange,
     Range(Unbounded(TRUE), Unbounded(FALSE)),
     Range(RangeBound(0, FALSE, TRUE, TRUE), RangeBound(1, FALSE, FALSE, FALSE))}

\* the row: its tuple and, as a history variable, the 'now' of its insert
NoRow == [state |-> "none", tuple |-> NoTuple, born |-> 0]
LiveRow(tuple, xid, born) ==
    [state |-> "live", tuple |-> [tuple EXCEPT !.xmin = xid], born |-> born]
DeletedRow(born) == [state |-> "deleted", tuple |-> NoTuple, born |-> born]

\* the last statement's trigger call: the event, tg_trigtuple, 'now', and
\* the outcome
NoCall == [op |-> "none", old |-> NoTuple, now |-> 0, status |-> Ok,
           warning |-> FALSE, ret |-> NoTuple, rows |-> << >>]

Call(op, old, now, result) ==
    [op |-> op, old |-> old, now |-> now, status |-> result.status,
     warning |-> result.warning, ret |-> result.ret, rows |-> result.rows]

(***************************************************************************)
(* Host: the transaction manager.  It hands out SubTransactionIds, keeps   *)
(* what a rollback restores, and calls the registered callbacks while the  *)
(* ending level is still the current one.                                  *)
(***************************************************************************)
GetCurrentSubTransactionId == Head(subStack)
Snapshot == [row |-> row, history |-> history]

XactBegin(maxXacts) ==
    /\ ~inXact
    /\ xactNo < maxXacts
    /\ xactNo' = xactNo + 1
    /\ inXact' = TRUE
    /\ subStack' = <<TopSubTransactionId>>
    /\ subCounter' = TopSubTransactionId
    /\ \E ts \in ClockVals : xactStartTs' = ts
    /\ failed' = FALSE
    /\ saved' = <<Snapshot>>
    /\ UNCHANGED <<temporal_contexts, versioning_cache, tableVars, catalog, spiPlans>>
    /\ last' = NoCall

EndXact ==
    /\ inXact' = FALSE
    /\ subStack' = << >>
    /\ subCounter' = InvalidSubTransactionId
    /\ xactStartTs' = 0
    /\ failed' = FALSE
    /\ saved' = << >>
    /\ UNCHANGED xactNo

XactCommit ==
    /\ inXact /\ ~failed
    /\ Len(subStack) = 1
    /\ temporal_contexts' =
           temporal_tables_xact_callback(temporal_contexts, "XACT_EVENT_COMMIT")
    /\ EndXact
    /\ UNCHANGED <<versioning_cache, tableVars, catalog, spiPlans>>
    /\ last' = NoCall

XactAbort ==
    /\ inXact
    /\ Len(subStack) = 1
    /\ temporal_contexts' =
           temporal_tables_xact_callback(temporal_contexts, "XACT_EVENT_ABORT")
    /\ EndXact
    /\ row' = Head(saved).row
    /\ history' = Head(saved).history
    /\ UNCHANGED <<versioning_cache, catalog, spiPlans>>
    /\ last' = NoCall

SubBegin(maxSubId) ==
    /\ inXact /\ ~failed
    /\ subCounter < maxSubId
    /\ subCounter' = subCounter + 1
    /\ subStack' = <<subCounter + 1>> \o subStack
    /\ saved' = <<Snapshot>> \o saved
    /\ UNCHANGED <<xactNo, inXact, xactStartTs, failed>>
    /\ UNCHANGED <<temporal_contexts, versioning_cache, tableVars, catalog, spiPlans>>
    /\ last' = NoCall

SubCommit ==
    /\ inXact /\ ~failed
    /\ Len(subStack) > 1
    /\ temporal_contexts' =
           temporal_tables_subxact_callback(temporal_contexts,
               "SUBXACT_EVENT_COMMIT_SUB", subStack[1], subStack[2],
               GetCurrentSubTransactionId)
    /\ subStack' = Tail(subStack)
    /\ saved' = Tail(saved)
    /\ UNCHANGED <<xactNo, inXact, subCounter, xactStartTs, failed>>
    /\ UNCHANGED <<versioning_cache, tableVars, catalog, spiPlans>>
    /\ last' = NoCall

SubAbort ==
    /\ inXact
    /\ Len(subStack) > 1
    /\ temporal_contexts' =
           temporal_tables_subxact_callback(temporal_contexts,
               "SUBXACT_EVENT_ABORT_SUB", subStack[1], subStack[2],
               GetCurrentSubTransactionId)
    /\ subStack' = Tail(subStack)
    /\ saved' = Tail(saved)
    /\ failed' = FALSE
    /\ row' = Head(saved).row
    /\ history' = Head(saved).history
    /\ UNCHANGED <<xactNo, inXact, subCounter, xactStartTs>>
    /\ UNCHANGED <<versioning_cache, catalog, spiPlans>>
    /\ last' = NoCall

SetSystemTime(arg) ==
    /\ inXact /\ ~failed
    /\ temporal_contexts' =
           set_system_time(temporal_contexts, arg, GetCurrentSubTransactionId)
    /\ UNCHANGED hostVars
    /\ UNCHANGED <<versioning_cache, tableVars, catalog, spiPlans>>
    /\ last' = NoCall

\* a read of 'now' as the trigger makes it: get_current_temporal_context(false)
GetSystemTime ==
    /\ inXact /\ ~failed
    /\ temporal_contexts' =
           get_current_temporal_context(temporal_contexts, FALSE,
                                        GetCurrentSubTransactionId)
    /\ UNCHANGED hostVars
    /\ UNCHANGED <<versioning_cache, tableVars, catalog, spiPlans>>
    /\ last' = NoCall

\* 'now' for a statement of the session
Now == get_system_time(temporal_contexts, xactStartTs, GetCurrentSubTransactionId)

\* The host fires the BEFORE ROW trigger, then applies the row operation
\* with the tuple returned; an ERROR leaves the tables to the rollback.
FireTrigger(event, trigtuple, newtuple, adjust) ==
    versioning(event, trigtuple, newtuple,
               <<catalog.period_attname, HistoryRelation, adjust>>, Now,
               xactNo, versioning_cache, catalog, spiPlans + 1)

\* SPI_prepare has returned one more plan when the entry holds the next one
PlansAfter(entry) ==
    IF entry.insert_history_plan.ptr = spiPlans + 1
    THEN spiPlans + 1
    ELSE spiPlans

Statement(op, old, result, rowAfter) ==
    /\ last' = Call(op, old, Now, result)
    /\ versioning_cache' = result.entry
    /\ temporal_contexts' =
           get_current_temporal_context(temporal_contexts, FALSE,
                                        GetCurrentSubTransactionId)
    /\ IF result.status = Ok
       THEN /\ row' = rowAfter
            /\ history' = history \o result.rows
            /\ failed' = FALSE
       ELSE /\ UNCHANGED tableVars
            /\ failed' = TRUE
    /\ spiPlans' = PlansAfter(result.entry)
    /\ UNCHANGED <<xactNo, inXact, subStack, subCounter, xactStartTs, saved>>
    /\ UNCHANGED catalog

InsertWith(data, adjust) ==
    /\ inXact /\ ~failed
    /\ row.state = "none"
    /\ \E result \in {FireTrigger("INSERT", Tuple(0, data, NullPeriod),
                                  NoTuple, adjust)} :
          Statement("INSERT", Tuple(0, data, NullPeriod), result,
                    LiveRow(result.ret, xactNo, Now))

Insert(data) == InsertWith(data, "true")

Update(data, period, adjust) ==
    /\ inXact /\ ~failed
    /\ row.state = "live"
    /\ \E result \in {FireTrigger("UPDATE", row.tuple,
                                  Tuple(0, data, period), adjust)} :
          Statement("UPDATE", row.tuple, result,
                    LiveRow(result.ret, xactNo, row.born))

Delete(adjust) ==
    /\ inXact /\ ~failed
    /\ row.state = "live"
    /\ \E result \in {FireTrigger("DELETE", row.tuple, NoTuple, adjust)} :
          Statement("DELETE", row.tuple, result, DeletedRow(row.born))

(***************************************************************************)
(* Host: a second backend on the same two relations.  It has its own       *)
(* transaction, context stack (the root alone: it never calls              *)
(* set_system_time) and versioning cache.  The host serialises the writes  *)
(* of the row: a backend's UPDATE waits while the other backend holds a    *)
(* version of the row it has not committed, and then finds the committed   *)
(* row.  'undo' is the tables as the peer's first write found them.        *)
(***************************************************************************)
NoUndo == [row |-> NoRow, history |-> << >>]

NoPeer ==
    [inXact |-> FALSE, xacts |-> 0, xid |-> 0, startTs |-> 0,
     failed |-> FALSE, wrote |-> FALSE, undo |-> NoUndo,
     cache |-> NoHashEntry, plans |-> 0, during |-> 0]

\* the session's transaction holds a row version it has not committed
SessionHoldsRow == inXact /\ row # saved[Len(saved)].row

\* a rollback of the session undoes the session's writes alone: while it has
\* written nothing, its restore points follow the tables
FollowTables(newRow, newHistory) ==
    saved' = [i \in 1 .. Len(saved) |-> [row |-> newRow, history |-> newHistory]]

\* the peer's transaction ids are the negative numbers
PeerBegin(maxXacts) ==
    /\ ~peer.inXact
    /\ peer.xacts < maxXacts
    /\ \E ts \in ClockVals :
          peer' = [peer EXCEPT !.inXact = TRUE, !.xacts = @ + 1,
                               !.xid = -(peer.xacts + 1), !.startTs = ts]
    /\ UNCHANGED <<hostVars, temporal_contexts, versioning_cache, tableVars, catalog, spiPlans>>
    /\ last' = NoCall

PeerNow == get_system_time(<<RootContext>>, peer.startTs, TopSubTransactionId)

PeerFireTrigger(event, trigtuple, newtuple, adjust) ==
    versioning(event, trigtuple, newtuple,
               <<catalog.period_attname, HistoryRelation, adjust>>, PeerNow,
               peer.xid, peer.cache, catalog, peer.plans + 1)

PeerStatement(result, rowAfter) ==
    /\ last' = Call("UPDATE", row.tuple, PeerNow, result)
    /\ IF result.status = Ok
       THEN /\ row' = rowAfter
            /\ history' = history \o result.rows
            /\ FollowTables(rowAfter, history \o result.rows)
       ELSE UNCHANGED <<tableVars, saved>>
    /\ peer' = [peer EXCEPT
                   !.failed = result.status # Ok,
                   !.wrote = @ \/ result.status = Ok,
                   !.undo = IF peer.wrote \/ result.status # Ok THEN @
                            ELSE Snapshot,
                   !.cache = result.entry,
                   !.plans = IF result.entry.insert_history_plan.ptr = @ + 1
                             THEN @ + 1 ELSE @]
    /\ UNCHANGED <<xactNo, inXact, subStack, subCounter, xactStartTs, failed>>
    /\ UNCHANGED <<temporal_contexts, versioning_cache, catalog, spiPlans>>

PeerUpdate(data, adjust) ==
    /\ peer.inXact /\ ~peer.failed
    /\ row.state = "live"
    /\ ~SessionHoldsRow
    /\ \E result \in {PeerFireTrigger("UPDATE", row.tuple,
                            Tuple(0, data, row.tuple.period), adjust)} :
          PeerStatement(result, LiveRow(result.ret, peer.xid, row.born))

\* 'during': the session's transaction in progress when the peer committed
\* a write
PeerCommit ==
    /\ peer.inXact /\ ~peer.failed
    /\ peer' = [peer EXCEPT !.inXact = FALSE, !.startTs = 0, !.wrote = FALSE,
                            !.undo = NoUndo,
                            !.during = IF inXact /\ peer.wrote THEN xactNo ELSE 0]
    /\ UNCHANGED <<hostVars, temporal_contexts, versioning_cache, tableVars, catalog, spiPlans>>
    /\ last' = NoCall

PeerAbort ==
    /\ peer.inXact
    /\ peer' = [peer EXCEPT !.inXact = FALSE, !.startTs = 0, !.failed = FALSE,
                            !.wrote = FALSE, !.undo = NoUndo]
    /\ IF peer.wrote
       THEN /\ row' = peer.undo.row
            /\ history' = peer.undo.history
            /\ FollowTables(peer.undo.row, peer.undo.history)
       ELSE UNCHANGED <<tableVars, saved>>
    /\ UNCHANGED <<xactNo, inXact, subStack, subCounter, xactStartTs, failed>>
    /\ UNCHANGED <<temporal_contexts, versioning_cache, catalog, spiPlans>>
    /\ last' = NoCall

\* the session's UPDATE, which waits while the peer holds the row
SessionUpdate(data, adjust) ==
    /\ ~peer.wrote
    /\ Update(data, row.tuple.period, adjust)

(***************************************************************************)
(* History variable setLog: every set_system_time call whose effect has    *)
(* not been rolled back, oldest first, with the nesting depth that owns it *)
(* now (0: the session, 1: the transaction, 2..: its subtransactions).     *)
(***************************************************************************)
Depth == Len(subStack)

LogSet(arg) ==
    /\ Len(setLog) < CtxMaxSets
    /\ setLog' = Append(setLog, [lvl |-> Depth, arg |-> arg])

LogCommitLevel ==
    setLog' = [i \in 1 .. Len(setLog) |->
                  IF setLog[i].lvl = Depth
                  THEN [setLog[i] EXCEPT !.lvl = Depth - 1]
                  ELSE setLog[i]]

LogAbortLevel ==
    LET Keep(r) == r.lvl < Depth IN setLog' = SelectSeq(setLog, Keep)

\* 'now' as the surviving calls define it
LogNow ==
    IF setLog = << >> \/ setLog[Len(setLog)].arg.isnull
    THEN xactStartTs
    ELSE setLog[Len(setLog)].arg.value

(***************************************************************************)
(* History variable begun: for every active nesting level, innermost       *)
(* first, the context stack as it was when the level began.                *)
(***************************************************************************)
MarkBegin == begun' = <<temporal_contexts>> \o begun

MarkEnd == begun' = Tail(begun)

(***************************************************************************)
(* History variable lastEvent: the event the last step delivered, the      *)
(* stack it found and the active subtransaction ids, innermost first.      *)
(***************************************************************************)
NoEvent == [event |-> "none", before |-> << >>, levels |-> << >>]

Mark(event) ==
    lastEvent' = [event |-> event, before |-> temporal_contexts,
                  levels |-> subStack]

(***************************************************************************)
(* The eager stack: a copy of the current (mode, time) is pushed when a    *)
(* nesting level begins, the transaction's top level included; a level's   *)
(* commit merges its element into the parent's and its abort discards it;  *)
(* set_system_time writes to the top element.                              *)
(***************************************************************************)
EagerRoot == <<CurrentTransactionStartTimestamp, 0>>

EagerBegin == eager' = <<Head(eager)>> \o eager

EagerCommit == eager' = <<Head(eager)>> \o Tail(Tail(eager))

EagerAbort == eager' = Tail(eager)

EagerSet(arg) ==
    eager' = <<IF arg.isnull
               THEN <<CurrentTransactionStartTimestamp, Head(eager)[2]>>
               ELSE <<UserDefined, arg.value>>>> \o Tail(eager)

\* 'now' as the eager stack reports it
EagerNow ==
    IF Head(eager)[1] = CurrentTransactionStartTimestamp
    THEN xactStartTs
    ELSE Head(eager)[2]

(***************************************************************************)
(* The context-stack specification.                                        *)
(***************************************************************************)
Init ==
    /\ xactNo = 0
    /\ inXact = FALSE
    /\ subStack = << >>
    /\ subCounter = InvalidSubTransactionId
    /\ xactStartTs = 0
    /\ failed = FALSE
    /\ saved = << >>
    /\ temporal_contexts = <<RootContext>>
    /\ versioning_cache = NoHashEntry
    /\ catalog = InitialCatalog
    /\ spiPlans = 0
    /\ row = NoRow
    /\ history = << >>
    /\ last = NoCall
    /\ setLog = << >>
    /\ begun = << >>
    /\ lastEvent = NoEvent
    /\ eager = <<EagerRoot>>
    /\ peer = NoPeer

CtxNext ==
    \/ XactBegin(CtxMaxXacts) /\ UNCHANGED setLog /\ MarkBegin /\ Mark("begin") /\ EagerBegin /\ UNCHANGED peer
    \/ XactCommit /\ LogCommitLevel /\ MarkEnd /\ Mark("XACT_EVENT_COMMIT") /\ EagerCommit /\ UNCHANGED peer
    \/ XactAbort /\ LogAbortLevel /\ MarkEnd /\ Mark("XACT_EVENT_ABORT") /\ EagerAbort /\ UNCHANGED peer
    \/ SubBegin(CtxMaxSubId) /\ UNCHANGED setLog /\ MarkBegin /\ Mark("begin") /\ EagerBegin /\ UNCHANGED peer
    \/ SubCommit /\ LogCommitLevel /\ MarkEnd /\ Mark("SUBXACT_EVENT_COMMIT_SUB") /\ EagerCommit /\ UNCHANGED peer
    \/ SubAbort /\ LogAbortLevel /\ MarkEnd /\ Mark("SUBXACT_EVENT_ABORT_SUB") /\ EagerAbort /\ UNCHANGED peer
    \/ \E arg \in CtxSetArgs : SetSystemTime(arg) /\ LogSet(arg) /\ UNCHANGED begun /\ Mark("set_system_time") /\ EagerSet(arg) /\ UNCHANGED peer
    \/ GetSystemTime /\ UNCHANGED <<setLog, begun, eager>> /\ Mark("get_system_time") /\ UNCHANGED peer

CtxSpec == Init /\ [][CtxNext]_vars

(***************************************************************************)
(* The trigger specification: the session's transactions and statements    *)
(* on the row.                                                             *)
(***************************************************************************)
\* the period column of tg_newtuple: the stored value, or the one assigned
NewPeriods == {row.tuple.period} \cup AssignedPeriods

Statements ==
    \/ \E arg \in SetArgs : SetSystemTime(arg)
    \/ \E data \in InsertData, adjust \in AdjustArgs : InsertWith(data, adjust)
    \/ \E data \in UpdateData, adjust \in AdjustArgs :
          \E period \in NewPeriods : Update(data, period, adjust)
    \/ \E adjust \in AdjustArgs : Delete(adjust)

Next ==
    \/ XactBegin(MaxXacts) /\ UNCHANGED <<ghostVars, peer>>
    \/ XactCommit /\ UNCHANGED <<ghostVars, peer>>
    \/ XactAbort /\ UNCHANGED <<ghostVars, peer>>
    \/ Statements /\ UNCHANGED <<ghostVars, peer>>

Spec == Init /\ [][Next]_vars

(***************************************************************************)
(* The nesting specification: statements on the row at any subtransaction  *)
(* level of a transaction.                                                 *)
(***************************************************************************)
NestAdjustArgs == {"true", "false"}

NestStatements ==
    \/ SetSystemTime(TimeArg(TsMax))
    \/ Insert("a")
    \/ \E data \in UpdateData, adjust \in NestAdjustArgs :
          Update(data, row.tuple.period, adjust)
    \/ \E adjust \in NestAdjustArgs : Delete(adjust)

NestNext ==
    \/ XactBegin(NestMaxXacts) /\ UNCHANGED <<ghostVars, peer>>
    \/ XactCommit /\ UNCHANGED <<ghostVars, peer>>
    \/ XactAbort /\ UNCHANGED <<ghostVars, peer>>
    \/ SubBegin(NestMaxSubId) /\ UNCHANGED <<ghostVars, peer>>
    \/ SubCommit /\ UNCHANGED <<ghostVars, peer>>
    \/ SubAbort /\ UNCHANGED <<ghostVars, peer>>
    \/ NestStatements /\ UNCHANGED <<ghostVars, peer>>

NestSpec == Init /\ [][NestNext]_vars

(***************************************************************************)
(* The two-backend specification: the session and the peer update the row  *)
(* in transactions that overlap in every way the row lock allows.  A       *)
(* transaction's start time is a reading of the clock, and the transactions *)
(* are fewer than the timestamps between the clock and 'infinity'.         *)
(***************************************************************************)
TwoNext ==
    \/ XactBegin(TwoMaxXacts) /\ UNCHANGED <<ghostVars, peer>>
    \/ XactCommit /\ UNCHANGED <<ghostVars, peer>>
    \/ XactAbort /\ UNCHANGED <<ghostVars, peer>>
    \/ Insert("a") /\ UNCHANGED <<ghostVars, peer>>
    \/ \E data \in UpdateData, adjust \in NestAdjustArgs :
          SessionUpdate(data, adjust) /\ UNCHANGED <<ghostVars, peer>>
    \/ PeerBegin(TwoMaxPeerXacts) /\ UNCHANGED ghostVars
    \/ \E data \in UpdateData, adjust \in NestAdjustArgs :
          PeerUpdate(data, adjust) /\ UNCHANGED ghostVars
    \/ PeerCommit /\ UNCHANGED ghostVars
    \/ PeerAbort /\ UNCHANGED ghostVars

TwoSpec == Init /\ [][TwoNext]_vars

(***************************************************************************)
(* The cache specification: the session's transactions and updates of the  *)
(* row, with changes of the schemas and of the trigger declaration between *)
(* the transactions, and SPI_prepare free to fail.                         *)
(***************************************************************************)
\* ALTER TABLE ... RENAME COLUMN on the versioned relation's data column
RenamedColumn == "renamed"

\* ALTER TABLE ... ALTER COLUMN ... TYPE on the history relation's data column
AlteredType == "int4"

\* the history relation another declaration of the trigger names
OtherHistoryRelid == 3

SchemaChange(cat) ==
    /\ ~inXact
    /\ cat # catalog
    /\ catalog' = cat
    /\ last' = NoCall
    /\ UNCHANGED hostVars
    /\ UNCHANGED <<temporal_contexts, versioning_cache, spiPlans, tableVars>>

RenameColumn ==
    /\ catalog.tupdesc[1].attname = "data"
    /\ SchemaChange([catalog EXCEPT !.tupdesc[1].attname = RenamedColumn])

AlterHistoryColumnType ==
    SchemaChange([catalog EXCEPT !.history_tupdesc[1].atttypid = AlteredType])

DropHistoryPeriodColumn ==
    SchemaChange([catalog EXCEPT !.history_tupdesc[2].attisdropped = TRUE])

SwitchHistoryRelation ==
    SchemaChange([catalog EXCEPT !.history_relid = OtherHistoryRelid])

\* the trigger is declared again, naming the second range column
SwitchPeriodColumn ==
    SchemaChange([catalog EXCEPT !.period_attname = AltPeriodColumn])

\* an INSERT that supplies a value for both range columns
InsertBoth(data, given) ==
    /\ inXact /\ ~failed
    /\ row.state = "none"
    /\ \E result \in {FireTrigger("INSERT", TupleWith(0, data, given, given),
                                  NoTuple, "true")} :
          Statement("INSERT", TupleWith(0, data, given, given), result,
                    LiveRow(result.ret, xactNo, Now))

\* the trigger fired while SPI_prepare returns NULL
FireTriggerPrepareFails(event, trigtuple, newtuple, adjust) ==
    versioning(event, trigtuple, newtuple,
               <<catalog.period_attname, HistoryRelation, adjust>>, Now,
               xactNo, versioning_cache, catalog, NullPlanPtr)

UpdatePrepareFails(data, adjust) ==
    /\ inXact /\ ~failed
    /\ row.state = "live"
    /\ \E result \in {FireTriggerPrepareFails("UPDATE", row.tuple,
                          Tuple(0, data, row.tuple.period), adjust)} :
          Statement("UPDATE", row.tuple, result,
                    LiveRow(result.ret, xactNo, row.born))

CacheNext ==
    \/ XactBegin(CacheMaxXacts) /\ UNCHANGED <<ghostVars, peer>>
    \/ XactCommit /\ UNCHANGED <<ghostVars, peer>>
    \/ XactAbort /\ UNCHANGED <<ghostVars, peer>>
    \/ RenameColumn /\ UNCHANGED <<ghostVars, peer>>
    \/ AlterHistoryColumnType /\ UNCHANGED <<ghostVars, peer>>
    \/ DropHistoryPeriodColumn /\ UNCHANGED <<ghostVars, peer>>
    \/ SwitchHistoryRelation /\ UNCHANGED <<ghostVars, peer>>
    \/ SwitchPeriodColumn /\ UNCHANGED <<ghostVars, peer>>
    \/ Insert("a") /\ UNCHANGED <<ghostVars, peer>>
    \/ InsertBoth("a", OpenEnded(0)) /\ UNCHANGED <<ghostVars, peer>>
    \/ Update("b", row.tuple.period, "true") /\ UNCHANGED <<ghostVars, peer>>
    \/ UpdatePrepareFails("b", "true") /\ UNCHANGED <<ghostVars, peer>>
    \/ Delete("true") /\ UNCHANGED <<ghostVars, peer>>

CacheSpec == Init /\ [][CacheNext]_vars

(***************************************************************************)
(* C1: in every state inside a transaction, 'now' as get_system_time       *)
(* reads it from get_current_temporal_context(false) is the value of the   *)
(* most recent set_system_time call that has not been rolled back: made in *)
(* the current level, in an ancestor, in a committed descendant of one of  *)
(* them, or in an earlier committed transaction; a NULL call selects the   *)
(* transaction start time, as does the absence of any call.                *)
(***************************************************************************)
C1_VisibleIsLastSurvivingSet ==
    inXact =>
        get_system_time(temporal_contexts, xactStartTs,
                        GetCurrentSubTransactionId) = LogNow

C1_Witness ==
    /\ inXact /\ Depth >= 2
    /\ subCounter > Head(subStack)
    /\ Len(setLog) >= 2
    /\ setLog[Len(setLog)].lvl < Depth
    /\ ~setLog[Len(setLog)].arg.isnull
    /\ Len(temporal_contexts) >= 3
    /\ get_system_time(temporal_contexts, xactStartTs,
                       GetCurrentSubTransactionId) = setLog[Len(setLog)].arg.value

(***************************************************************************)
(* Vocabulary of the statements on the row.  In a step, the unprimed       *)
(* variables are the state the statement finds and last' is its call.      *)
(***************************************************************************)
\* the stored row was written by an earlier transaction
OtherTransaction ==
    row.state = "live" /\ row.tuple.xmin # xactNo

SameTransaction ==
    row.state = "live" /\ row.tuple.xmin = xactNo

\* the stored period is non-null, non-empty and unbounded on the upper side
StoredValid ==
    /\ ~row.tuple.period.isnull
    /\ ~row.tuple.period.empty
    /\ row.tuple.period.upper.infinite

\* 'now' is strictly greater than the stored lower bound
NowAfterLower ==
    row.tuple.period.lower.infinite \/ row.tuple.period.lower.val < Now

\* 'now' is less than or equal to the stored lower bound
NowNotAfterLower ==
    ~row.tuple.period.lower.infinite /\ Now <= row.tuple.period.lower.val

\* the history row with the image of 'tuple' and the period from its lower
\* bound to 'closing', exclusive
HistoryRow(tuple, closing) ==
    [data |-> tuple.data,
     period |-> Range(tuple.period.lower,
                      RangeBound(closing, FALSE, FALSE, FALSE))]

(***************************************************************************)
(* C2: an UPDATE of a row written by an earlier transaction, whose stored  *)
(* period is valid and has its lower bound strictly before 'now', succeeds *)
(* without the WARNING, adds exactly one row to the history relation, the  *)
(* old image with the period [old_lower, now), and returns (and so stores) *)
(* the new image with the period [now, ).                                  *)
(***************************************************************************)
C2_UpdateArchivesOldImage ==
    [][(last'.op = "UPDATE" /\ OtherTransaction /\ StoredValid
           /\ NowAfterLower)
       => \A data \in UpdateData, adjust \in AdjustArgs, period \in NewPeriods :
             Update(data, period, adjust)
             => /\ last'.status = Ok
                /\ ~last'.warning
                /\ history' = Append(history, HistoryRow(row.tuple, Now))
                /\ last'.ret = Tuple(0, data, OpenEnded(Now))
                /\ row' = LiveRow(last'.ret, xactNo, row.born)]_vars

C2_Witness ==
    /\ last.op = "UPDATE" /\ last.status = Ok /\ ~last.warning
    /\ last.old.xmin # xactNo
    /\ ~last.old.period.lower.infinite
    /\ last.old.period.lower.val < last.now
    /\ last.old.data # row.tuple.data
    /\ history # << >>
    /\ history[Len(history)] = HistoryRow(last.old, last.now)
    /\ row.tuple.period = OpenEnded(last.now)

(***************************************************************************)
(* C3: after an UPDATE of a row that the transaction in progress inserted, *)
(* the history relation has no row and the stored period is [t, ), t being *)
(* the 'now' of the INSERT.                                                *)
(***************************************************************************)
InsertedInTransaction ==
    /\ inXact /\ row.state = "live"
    /\ saved[Len(saved)].row.state = "none"

C3_InsertThenUpdateKeepsPeriod ==
    (InsertedInTransaction /\ last.op = "UPDATE" /\ last.status = Ok)
    => /\ history = << >>
       /\ last.rows = << >>
       /\ row.tuple.period = OpenEnded(row.born)

\* the adjust argument as the trigger declaration writes it
PolicyFalse(adjust) == adjust \in {"false", "False", "FALSE"}
PolicyTrue(adjust) == adjust \in {"true", "True", "TRUE"}

\* the step is an UPDATE or a DELETE of the row with this adjust argument
UpdateOrDelete(adjust) ==
    \/ \E data \in UpdateData, period \in NewPeriods :
          Update(data, period, adjust)
    \/ Delete(adjust)

(***************************************************************************)
(* C4: an UPDATE or DELETE of a row written by an earlier transaction,     *)
(* whose stored period is valid and has its lower bound at or after 'now', *)
(* with the adjust argument "false" raises the conflict ERROR: no history  *)
(* row is added and the row stays as it was.                               *)
(***************************************************************************)
C4_ConflictWithoutAdjustFails ==
    [][(last'.op \in {"UPDATE", "DELETE"} /\ OtherTransaction /\ StoredValid
           /\ NowNotAfterLower)
       => \A adjust \in AdjustArgs :
             (PolicyFalse(adjust) /\ UpdateOrDelete(adjust))
             => /\ last'.status = ConflictError
                /\ ~last'.warning
                /\ last'.rows = << >>
                /\ history' = history
                /\ row' = row
                /\ failed']_vars

C4_Witness ==
    /\ last.op = "UPDATE" /\ last.status = ConflictError
    /\ last.old.xmin # xactNo
    /\ last.old.period = OpenEnded(last.now)
    /\ row.state = "live" /\ row.tuple = last.old
    /\ history = << >>
    /\ failed

(***************************************************************************)
(* C5: an UPDATE or DELETE of a row written by an earlier transaction,     *)
(* whose stored period is valid and has its lower bound at or after 'now', *)
(* with the adjust argument "true" succeeds with the WARNING and adds the  *)
(* old image to the history relation with the period from old_lower to    *)
(* the timestamp one above it, which is strictly greater than old_lower;   *)
(* an UPDATE stores the new image with the period from that timestamp on.  *)
(***************************************************************************)
C5_ConflictWithAdjustSucceeds ==
    [][(last'.op \in {"UPDATE", "DELETE"} /\ OtherTransaction /\ StoredValid
           /\ NowNotAfterLower)
       => \A adjust \in AdjustArgs :
             (PolicyTrue(adjust) /\ UpdateOrDelete(adjust))
             => /\ last'.status = Ok
                /\ last'.warning
                /\ row.tuple.period.lower.val + 1 \in Timestamps
                /\ history' = Append(history,
                       HistoryRow(row.tuple, row.tuple.period.lower.val + 1))
                /\ last'.op = "UPDATE"
                   => row'.tuple.period =
                          OpenEnded(row.tuple.period.lower.val + 1)]_vars

(***************************************************************************)
(* C6: a DELETE of a row written by an earlier transaction, whose stored   *)
(* period is valid and has its lower bound strictly before 'now', adds     *)
(* exactly one row to the history relation, the old image with the period  *)
(* [old_lower, now), and returns the row as it was, so that it is deleted; *)
(* a DELETE of a row written by the transaction in progress adds nothing   *)
(* to the history relation and returns the row as it was.                  *)
(***************************************************************************)
C6_DeleteArchivesAndReturnsOriginal ==
    [][/\ (last'.op = "DELETE" /\ OtherTransaction /\ StoredValid
              /\ NowAfterLower)
          => /\ last'.status = Ok
             /\ ~last'.warning
             /\ history' = Append(history, HistoryRow(row.tuple, Now))
             /\ last'.ret = row.tuple
             /\ row'.state = "deleted"
       /\ (last'.op = "DELETE" /\ SameTransaction)
          => /\ last'.status = Ok
             /\ ~last'.warning
             /\ history' = history
             /\ last'.ret = row.tuple
             /\ row'.state = "deleted"]_vars

C6_Witness ==
    /\ last.op = "DELETE" /\ last.status = Ok /\ ~last.warning
    /\ last.old.xmin # xactNo
    /\ ~last.old.period.lower.infinite
    /\ last.old.period.lower.val < last.now
    /\ history # << >>
    /\ history[Len(history)] = HistoryRow(last.old, last.now)
    /\ last.ret = last.old
    /\ row.state = "deleted"

\* the second case of C6: the row deleted by the transaction that wrote it
C6_WitnessSameTransaction ==
    /\ last.op = "DELETE" /\ last.status = Ok
    /\ last.old.xmin = xactNo
    /\ last.rows = << >>
    /\ last.ret = last.old
    /\ row.state = "deleted"

(***************************************************************************)
(* C7: an INSERT returns (and so stores) the row with the period           *)
(* [now, ), 'now' being the time of the current temporal context; it adds  *)
(* no row to the history relation and leaves the history relation, the     *)
(* cache and the stack of temporal contexts as they were.                  *)
(***************************************************************************)
C7_InsertOpensPeriodAndArchivesNothing ==
    [][last'.op = "INSERT"
       => \A data \in InsertData :
             Insert(data)
             => /\ last'.status = Ok
                /\ ~last'.warning
                /\ last'.now = Now
                /\ last'.ret = Tuple(0, data, OpenEnded(Now))
                /\ row' = LiveRow(last'.ret, xactNo, Now)
                /\ last'.rows = << >>
                /\ history' = history
                /\ versioning_cache' = versioning_cache
                /\ temporal_contexts' = temporal_contexts]_vars

C7_Witness ==
    /\ last.op = "INSERT" /\ last.status = Ok
    /\ Head(temporal_contexts).system_time_mode = UserDefined
    /\ last.now = Head(temporal_contexts).system_time
    /\ last.now # xactStartTs
    /\ row.state = "live"
    /\ row.tuple.period = OpenEnded(last.now)
    /\ history = << >>
    /\ ~versioning_cache.found

(***************************************************************************)
(* C8: the periods of the row's versions, the history rows in the order    *)
(* they were archived and then the live row, follow one another: the upper *)
(* bound of each is finite and is the lower bound of the next, so that no  *)
(* two of them overlap and no gap is left between them.                    *)
(***************************************************************************)
Versions ==
    [i \in 1 .. Len(history) |-> history[i].period]
        \o (IF row.state = "live" THEN <<row.tuple.period>> ELSE << >>)

Meets(earlier, later) ==
    /\ ~earlier.isnull /\ ~earlier.empty
    /\ ~later.isnull /\ ~later.empty
    /\ ~earlier.upper.infinite /\ ~later.lower.infinite
    /\ earlier.upper.val = later.lower.val
    /\ ~earlier.upper.inclusive /\ later.lower.inclusive

C8_LifetimeIsContiguous ==
    \A i \in 1 .. Len(Versions) - 1 : Meets(Versions[i], Versions[i + 1])

(***************************************************************************)
(* C9: every row of the history relation has a period that is not empty,   *)
(* with both bounds finite and the lower bound strictly less than the      *)
(* upper bound.                                                            *)
(***************************************************************************)
C9_ArchivedPeriodsAreFinite ==
    \A i \in 1 .. Len(history) :
        /\ ~history[i].period.isnull /\ ~history[i].period.empty
        /\ ~history[i].period.lower.infinite
        /\ ~history[i].period.upper.infinite
        /\ history[i].period.lower.val < history[i].period.upper.val

(***************************************************************************)
(* C10: the row an INSERT or an UPDATE returns has a period with a finite  *)
(* lower bound and no upper bound.                                         *)
(***************************************************************************)
C10_ReturnedPeriodIsCurrent ==
    (last.op \in {"INSERT", "UPDATE"} /\ last.status = Ok)
    => /\ ~last.ret.period.isnull /\ ~last.ret.period.empty
       /\ ~last.ret.period.lower.infinite
       /\ last.ret.period.upper.infinite

(***************************************************************************)
(* Vocabulary of the cache claims.                                         *)
(***************************************************************************)
\* the entry is marked valid
CacheValid == versioning_cache.found /\ versioning_cache.natts >= 1

\* the entry is valid and agrees with the live schemas and history relation
CacheFresh ==
    /\ CacheValid
    /\ versioning_cache.history_relid = catalog.history_relid
    /\ versioning_cache.tupdesc = DescCopy(catalog.tupdesc)
    /\ versioning_cache.history_tupdesc = DescCopy(catalog.history_tupdesc)

\* the entry maps attribute attnum of the versioned relation
Mapped(entry, attnum) == \E n \in 1 .. Len(entry.attnums) : entry.attnums[n] = attnum

\* the entry was built while the data column had its old name, common with
\* the history relation, and the column has been renamed since
StaleByRename ==
    /\ CacheValid
    /\ ~versioning_cache.tupdesc.null
    /\ versioning_cache.tupdesc.atts[1].attname = "data"
    /\ Mapped(versioning_cache, 1)
    /\ catalog.tupdesc[1].attname = RenamedColumn

\* the step is a statement of the given kind that archived a row
Archives(op) == last'.op = op /\ last'.status = Ok /\ last'.rows # << >>

(***************************************************************************)
(* C11: when an entry built before the rename of a common column is used   *)
(* by an archiving update, that update prepares exactly one new insert,    *)
(* the new mapping leaves the renamed column out and the archived row has  *)
(* no value for it; an archiving update that finds the entry in agreement  *)
(* with the live schemas prepares nothing and leaves the entry, plan       *)
(* pointer included, as it was.                                            *)
(***************************************************************************)
C11_RenameRebuildsOnce ==
    [][Archives("UPDATE") =>
         /\ StaleByRename =>
              /\ spiPlans' = spiPlans + 1
              /\ versioning_cache'.insert_history_plan.ptr = spiPlans'
              /\ versioning_cache'.insert_history_plan.ptr
                     # versioning_cache.insert_history_plan.ptr
              /\ ~Mapped(versioning_cache', 1)
              /\ versioning_cache'.natts = Len(versioning_cache'.attnums)
              /\ versioning_cache'.tupdesc = DescCopy(catalog.tupdesc)
              /\ last'.rows[1].data = NullData
         /\ CacheFresh =>
              /\ spiPlans' = spiPlans
              /\ versioning_cache' = versioning_cache]_vars

\* first build, rename, rebuild by the next update, reuse by a further one
C11_Witness ==
    /\ catalog.tupdesc[1].attname = RenamedColumn
    /\ Len(history) = 3
    /\ history[1].data # NullData
    /\ history[2].data = NullData
    /\ history[3].data = NullData
    /\ spiPlans = 2
    /\ versioning_cache.insert_history_plan.ptr = 2
    /\ ~Mapped(versioning_cache, 1)
    /\ last.op = "UPDATE"

\* the archival reached the cache: the plan was executed or the rebuild failed
RebuildErrors == {NoHistoryPeriodError, TypeMismatchError, "SPI_prepare returned NULL"}

ReachesCache == last'.rows # << >> \/ last'.status \in RebuildErrors

\* the entry's mapping pairs live attributes of the same name, none dropped
MappingAgrees(entry, cat) ==
    /\ Len(entry.insert_history_plan.history_attnums) = Len(entry.attnums)
    /\ \A n \in 1 .. Len(entry.attnums) :
          LET attr == cat.tupdesc[entry.attnums[n]]
              history_attr == cat.history_tupdesc[entry.insert_history_plan.history_attnums[n]]
          IN  /\ ~attr.attisdropped /\ ~history_attr.attisdropped
              /\ attr.attname = history_attr.attname

(***************************************************************************)
(* C12: every statement that executes the prepared insert leaves, and so   *)
(* executed with, an entry that is valid, names the live history relation  *)
(* in the entry and in the plan, holds copies of both live descriptors and *)
(* a mapping that agrees with them; and when the entry found was valid but *)
(* disagreed with the live schemas or history relation, the plan pointer   *)
(* it held is gone from the entry, whether the rebuild succeeded or not.   *)
(***************************************************************************)
C12_ExecutedPlanIsFresh ==
    [][/\ last'.rows # << >> =>
            /\ versioning_cache'.found
            /\ versioning_cache'.natts >= 1
            /\ ~versioning_cache'.insert_history_plan.null
            /\ versioning_cache'.history_relid = catalog.history_relid
            /\ versioning_cache'.insert_history_plan.relid = catalog.history_relid
            /\ versioning_cache'.tupdesc = DescCopy(catalog.tupdesc)
            /\ versioning_cache'.history_tupdesc = DescCopy(catalog.history_tupdesc)
            /\ MappingAgrees(versioning_cache', catalog)
       /\ ReachesCache /\ CacheValid /\ ~CacheFresh =>
            /\ versioning_cache'.insert_history_plan.ptr
                   # versioning_cache.insert_history_plan.ptr
            /\ \/ versioning_cache'.natts = -1 /\ versioning_cache'.attnums = << >>
               \/ MappingAgrees(versioning_cache', catalog)]_vars

\* a plan prepared for the first history relation, then the trigger names
\* another one and a later statement archives into it with a second plan
C12_Witness ==
    /\ catalog.history_relid = OtherHistoryRelid
    /\ last.rows # << >>
    /\ Len(history) = 2
    /\ spiPlans = 2
    /\ versioning_cache.insert_history_plan.relid = OtherHistoryRelid

\* the entry is marked invalid and holds nothing
CacheInvalid(entry) ==
    /\ entry.found
    /\ entry.natts = -1
    /\ entry.insert_history_plan = NullPlan
    /\ entry.tupdesc = NullDesc /\ entry.history_tupdesc = NullDesc
    /\ entry.attnums = << >>

\* the entry is marked valid and holds everything
CachePopulated(entry) ==
    /\ entry.natts = Len(entry.attnums)
    /\ ~entry.insert_history_plan.null
    /\ entry.insert_history_plan.ptr # NullPlanPtr
    /\ ~entry.tupdesc.null /\ ~entry.history_tupdesc.null
    /\ entry.history_relid # 0

(***************************************************************************)
(* C13: a statement whose rebuild fails (no period column in the history   *)
(* relation, a type mismatch, SPI_prepare returning NULL) leaves the entry *)
(* invalid with natts = -1 and nothing in it; a statement that reaches the *)
(* cache with an invalid entry runs the rebuild again, so that it either   *)
(* fails again or executes a plan prepared by this very statement; and an  *)
(* entry is never marked valid unless it is fully populated.               *)
(***************************************************************************)
C13_FailedRebuildStaysInvalid ==
    [][/\ last'.status \in RebuildErrors => CacheInvalid(versioning_cache')
       /\ ReachesCache /\ versioning_cache.found /\ versioning_cache.natts = -1 =>
            \/ last'.status \in RebuildErrors
            \/ /\ last'.status = Ok
               /\ spiPlans' = spiPlans + 1
               /\ versioning_cache'.insert_history_plan.ptr = spiPlans'
               /\ versioning_cache'.natts >= 1
       /\ versioning_cache'.found /\ versioning_cache'.natts # -1 =>
            CachePopulated(versioning_cache')]_vars

\* a valid entry was invalidated and its rebuild failed
C13_Witness ==
    /\ last.status \in RebuildErrors
    /\ spiPlans >= 1
    /\ CacheInvalid(versioning_cache)
    /\ failed

(***************************************************************************)
(* Vocabulary of the context-stack claims.                                 *)
(***************************************************************************)
\* what a context makes visible: its mode and time
Visible(ctx) == <<ctx.system_time_mode, ctx.system_time>>

\* the contexts of the stack labelled with the given level
ContextsOf(contexts, subid) == {i \in 1 .. Len(contexts) : contexts[i].subid = subid}

\* the root context: the bottom of the stack
Root(contexts) == contexts[Len(contexts)]

(***************************************************************************)
(* C14: an outer commit that finds a non-root context on top removes it    *)
(* and leaves only the root, labelled with the sentinel level and holding  *)
(* that context's mode and time, so that a later transaction reads the     *)
(* committed time (or its own start time if the committed mode says so);   *)
(* an outer commit that finds only the root leaves the stack as it was.    *)
(***************************************************************************)
C14_OuterCommitKeepsOverride ==
    [][XactCommit =>
         LET ctx == Head(temporal_contexts) IN
         IF ctx.subid # InvalidSubTransactionId
         THEN /\ Len(temporal_contexts') = Len(temporal_contexts) - 1
              /\ temporal_contexts' =
                     <<TemporalContext(InvalidSubTransactionId,
                                       ctx.system_time_mode, ctx.system_time)>>
              /\ \A ts \in ClockVals :
                    get_system_time(temporal_contexts', ts, TopSubTransactionId)
                        = IF ctx.system_time_mode = UserDefined
                          THEN ctx.system_time ELSE ts
         ELSE /\ Len(temporal_contexts) = 1
              /\ temporal_contexts' = temporal_contexts]_vars

\* a transaction that set a time has committed: the root holds that time
C14_Witness ==
    /\ lastEvent.event = "XACT_EVENT_COMMIT"
    /\ Head(lastEvent.before).subid = TopSubTransactionId
    /\ Head(lastEvent.before).system_time_mode = UserDefined
    /\ Root(lastEvent.before).system_time_mode = CurrentTransactionStartTimestamp
    /\ temporal_contexts = <<TemporalContext(InvalidSubTransactionId, UserDefined,
                                             Head(lastEvent.before).system_time)>>

\* an outer commit that found only the root
C14_WitnessRootOnly ==
    /\ lastEvent.event = "XACT_EVENT_COMMIT"
    /\ Len(lastEvent.before) = 1
    /\ temporal_contexts = lastEvent.before
    /\ Head(temporal_contexts).system_time_mode = UserDefined

(***************************************************************************)
(* C15: an outer abort leaves exactly the stack the transaction began      *)
(* with: the root alone, with the sentinel level and the mode and time it  *)
(* had when the transaction began.                                         *)
(***************************************************************************)
C15_OuterAbortRestoresRoot ==
    [][XactAbort =>
         /\ Len(begun) = 1
         /\ temporal_contexts' = begun[1]
         /\ Len(temporal_contexts') = 1
         /\ Head(temporal_contexts').subid = InvalidSubTransactionId
         /\ Visible(Head(temporal_contexts')) = Visible(Root(temporal_contexts))]_vars

\* the aborted transaction began under a committed time and held another
C15_Witness ==
    /\ lastEvent.event = "XACT_EVENT_ABORT"
    /\ Head(lastEvent.before).subid = TopSubTransactionId
    /\ Root(lastEvent.before).system_time_mode = UserDefined
    /\ Visible(Head(lastEvent.before)) # Visible(Root(lastEvent.before))
    /\ subCounter = InvalidSubTransactionId
    /\ \E r \in 1 .. Len(setLog) : setLog[r].lvl = 0
    /\ temporal_contexts = <<Root(lastEvent.before)>>

(***************************************************************************)
(* C16: a subtransaction abort leaves exactly the stack the subtransaction *)
(* began with, so the visible mode and time are those visible just before  *)
(* it began; when the top context is not the aborting level's, the abort   *)
(* leaves the stack as it found it.                                        *)
(***************************************************************************)
C16_SubAbortRestoresVisible ==
    [][SubAbort =>
         /\ temporal_contexts' = begun[1]
         /\ Visible(Head(temporal_contexts')) = Visible(Head(begun[1]))
         /\ Head(temporal_contexts).subid # subStack[1] =>
                temporal_contexts' = temporal_contexts]_vars

\* the aborted subtransaction had changed the visible time
C16_Witness ==
    /\ lastEvent.event = "SUBXACT_EVENT_ABORT_SUB"
    /\ Head(lastEvent.before).subid = lastEvent.levels[1]
    /\ Visible(Head(lastEvent.before)) # Visible(Head(temporal_contexts))
    /\ temporal_contexts = Tail(lastEvent.before)
    /\ Len(temporal_contexts) >= 2

\* the aborted subtransaction had no context of its own
C16_WitnessUntouched ==
    /\ lastEvent.event = "SUBXACT_EVENT_ABORT_SUB"
    /\ Head(lastEvent.before).subid # lastEvent.levels[1]
    /\ temporal_contexts = lastEvent.before
    /\ Len(temporal_contexts) >= 2

(***************************************************************************)
(* C17: a subtransaction commit that finds the committing level's context  *)
(* on top leaves a top context labelled with the parent's id and holding   *)
(* the committing context's mode and time, no context labelled with the    *)
(* committing id and exactly one labelled with the parent's; the contexts  *)
(* below the parent's are untouched. A commit that finds another level's   *)
(* context on top leaves the stack as it found it.                         *)
(***************************************************************************)
C17_SubCommitMergesIntoParent ==
    [][SubCommit =>
         LET mySubid == subStack[1]
             parentSubid == subStack[2]
             ctx == Head(temporal_contexts)
         IN  IF ctx.subid = mySubid
             THEN /\ Head(temporal_contexts') =
                         TemporalContext(parentSubid, ctx.system_time_mode,
                                         ctx.system_time)
                  /\ ContextsOf(temporal_contexts', mySubid) = {}
                  /\ ContextsOf(temporal_contexts', parentSubid) = {1}
                  /\ Tail(temporal_contexts') =
                         IF temporal_contexts[2].subid = parentSubid
                         THEN Tail(Tail(temporal_contexts))
                         ELSE Tail(temporal_contexts)
             ELSE temporal_contexts' = temporal_contexts]_vars

\* the parent held a context of its own: the child's was copied into it
C17_Witness ==
    /\ lastEvent.event = "SUBXACT_EVENT_COMMIT_SUB"
    /\ Head(lastEvent.before).subid = lastEvent.levels[1]
    /\ lastEvent.before[2].subid = lastEvent.levels[2]
    /\ Visible(lastEvent.before[2]) # Visible(Head(lastEvent.before))
    /\ Len(temporal_contexts) = Len(lastEvent.before) - 1
    /\ Visible(Head(temporal_contexts)) = Visible(Head(lastEvent.before))

\* the parent held none: the child's context was relabelled in place
C17_WitnessRelabel ==
    /\ lastEvent.event = "SUBXACT_EVENT_COMMIT_SUB"
    /\ Head(lastEvent.before).subid = lastEvent.levels[1]
    /\ lastEvent.before[2].subid # lastEvent.levels[2]
    /\ Len(temporal_contexts) = Len(lastEvent.before)
    /\ Head(temporal_contexts).subid = lastEvent.levels[2]

(***************************************************************************)
(* C18: a read of 'now' leaves the stack as it found it. A modifying       *)
(* access leaves everything below the top as it was when the top belongs   *)
(* to the active level, and otherwise puts one context on top of the whole *)
(* previous stack, labelled with the active level and holding the previous *)
(* top's mode and time. No two contexts of the stack carry the same level. *)
(***************************************************************************)
C18_AccessPushesAtMostOnce ==
    [][LET cursubid == GetCurrentSubTransactionId
           ctx == Head(temporal_contexts)
       IN  /\ GetSystemTime =>
                /\ temporal_contexts' = temporal_contexts
                /\ get_current_temporal_context(temporal_contexts, FALSE, cursubid)
                       = temporal_contexts
           /\ \A arg \in CtxSetArgs : SetSystemTime(arg) =>
                /\ Head(temporal_contexts').subid = cursubid
                /\ IF ctx.subid = cursubid
                   THEN /\ Tail(temporal_contexts') = Tail(temporal_contexts)
                        /\ get_current_temporal_context(temporal_contexts, TRUE, cursubid)
                               = temporal_contexts
                   ELSE /\ Tail(temporal_contexts') = temporal_contexts
                        /\ get_current_temporal_context(temporal_contexts, TRUE, cursubid)
                               = <<TemporalContext(cursubid, ctx.system_time_mode,
                                                   ctx.system_time)>>
                                  \o temporal_contexts
                /\ arg.isnull =>
                       Head(temporal_contexts').system_time = ctx.system_time
           /\ \A i, j \in 1 .. Len(temporal_contexts') :
                 i # j => temporal_contexts'[i].subid # temporal_contexts'[j].subid]_vars

\* a second modifying access at a level that already had its context, above
\* two other contexts
C18_Witness ==
    /\ lastEvent.event = "set_system_time"
    /\ Head(lastEvent.before).subid = lastEvent.levels[1]
    /\ Len(lastEvent.before) >= 3
    /\ Len(temporal_contexts) = Len(lastEvent.before)

\* a modifying access that pushed over a subtransaction's context
C18_WitnessPush ==
    /\ lastEvent.event = "set_system_time"
    /\ Head(lastEvent.before).subid # lastEvent.levels[1]
    /\ Head(lastEvent.before).subid # InvalidSubTransactionId
    /\ Head(lastEvent.before).system_time_mode = UserDefined
    /\ Len(temporal_contexts) = Len(lastEvent.before) + 1

\* a read in a subtransaction that has no context of its own
C18_WitnessRead ==
    /\ lastEvent.event = "get_system_time"
    /\ Len(subStack) >= 2
    /\ Head(temporal_contexts).subid # subStack[1]
    /\ Head(temporal_contexts).system_time_mode = UserDefined
    /\ temporal_contexts = lastEvent.before

(***************************************************************************)
(* C19: set_system_time leaves every context that is not the active        *)
(* level's, the root included, as it was, and the active level's context   *)
(* (created if the level had none) is on top afterwards. With a time it    *)
(* holds the user-defined mode and that time, which is then 'now'; with    *)
(* NULL only its mode changes, to the transaction-start mode, and 'now' is *)
(* the transaction's start time whatever the contexts below hold.          *)
(***************************************************************************)
C19_SetChangesOnlyActiveLevel ==
    [][\A arg \in CtxSetArgs : SetSystemTime(arg) =>
         LET cursubid == GetCurrentSubTransactionId
             ctx == Head(temporal_contexts)
             others == IF ctx.subid = cursubid
                       THEN Tail(temporal_contexts) ELSE temporal_contexts
             now == get_system_time(temporal_contexts', xactStartTs, cursubid)
         IN  /\ Tail(temporal_contexts') = others
             /\ Root(temporal_contexts') = Root(temporal_contexts)
             /\ Root(temporal_contexts').subid = InvalidSubTransactionId
             /\ IF arg.isnull
                THEN /\ Head(temporal_contexts') =
                            TemporalContext(cursubid,
                                            CurrentTransactionStartTimestamp,
                                            ctx.system_time)
                     /\ now = xactStartTs
                ELSE /\ Head(temporal_contexts') =
                            TemporalContext(cursubid, UserDefined, arg.value)
                     /\ now = arg.value]_vars

\* NULL was set in a subtransaction whose ancestors hold an explicit time
C19_Witness ==
    /\ lastEvent.event = "set_system_time"
    /\ Len(subStack) >= 2
    /\ Head(temporal_contexts).subid = subStack[1]
    /\ Head(temporal_contexts).system_time_mode = CurrentTransactionStartTimestamp
    /\ Head(lastEvent.before).subid # subStack[1]
    /\ Head(lastEvent.before).system_time_mode = UserDefined
    /\ Root(temporal_contexts).system_time_mode = UserDefined
    /\ get_system_time(temporal_contexts, xactStartTs, subStack[1]) = xactStartTs

\* a time was set at a level that already held another time
C19_WitnessTime ==
    /\ lastEvent.event = "set_system_time"
    /\ Head(lastEvent.before).subid = lastEvent.levels[1]
    /\ Head(lastEvent.before).system_time_mode = UserDefined
    /\ Head(temporal_contexts).system_time_mode = UserDefined
    /\ Head(temporal_contexts).system_time # Head(lastEvent.before).system_time

(***************************************************************************)
(* C20: every insert, update or delete whose trigger carries an adjust     *)
(* argument other than "true" or "false" (in any letter case) ends in the  *)
(* error for an invalid adjust argument.                                   *)
(***************************************************************************)
C20_InvalidAdjustAlwaysFails ==
    [][\A adjust \in AdjustArgs :
         parse_adjust_argument(adjust).status = AdjustArgError =>
           /\ last'.op = "INSERT" =>
                \A data \in InsertData :
                   InsertWith(data, adjust) => last'.status = AdjustArgError
           /\ last'.op = "UPDATE" =>
                \A data \in UpdateData, period \in NewPeriods :
                   Update(data, period, adjust) => last'.status = AdjustArgError
           /\ last'.op = "DELETE" =>
                (Delete(adjust) => last'.status = AdjustArgError)]_vars

(***************************************************************************)
(* C21: an update or delete of a row of another transaction whose stored   *)
(* period is null, empty or bounded above raises the data error (null: the *)
(* not-null error; otherwise the invalid-value error), adds no history     *)
(* row, leaves the cache entry and the count of prepared plans as they     *)
(* were and leaves the row as it was. On a row the transaction in progress *)
(* wrote, the same stored value raises nothing: the statement succeeds     *)
(* without a warning and archives nothing.                                 *)
(***************************************************************************)
C21_InvalidStoredPeriodIsDataError ==
    [][last'.op \in {"UPDATE", "DELETE"} /\ row.state = "live" /\ ~StoredValid =>
         /\ last'.rows = << >>
         /\ history' = history
         /\ versioning_cache' = versioning_cache
         /\ spiPlans' = spiPlans
         /\ IF OtherTransaction
            THEN /\ last'.status = IF row.tuple.period.isnull
                                   THEN NullPeriodError ELSE InvalidPeriodError
                 /\ row' = row
                 /\ failed'
            ELSE /\ last'.status = Ok
                 /\ ~last'.warning
                 /\ ~failed']_vars

\* the data error on an empty stored period left by an earlier transaction
C21_Witness ==
    /\ last.op \in {"UPDATE", "DELETE"}
    /\ last.status = InvalidPeriodError
    /\ ~last.old.period.isnull /\ last.old.period.empty
    /\ last.old.xmin # xactNo
    /\ failed

\* the data error on a null stored period
C21_WitnessNull ==
    /\ last.op = "DELETE"
    /\ last.status = NullPeriodError
    /\ last.old.period.isnull
    /\ last.old.xmin # xactNo

\* the data error on a stored period bounded above
C21_WitnessBounded ==
    /\ last.op = "UPDATE"
    /\ last.status = InvalidPeriodError
    /\ ~last.old.period.isnull /\ ~last.old.period.empty
    /\ ~last.old.period.upper.infinite
    /\ last.old.xmin # xactNo

\* the skip on a null stored period written by the transaction in progress
C21_WitnessSkipped ==
    /\ last.op = "DELETE"
    /\ last.status = Ok
    /\ last.old.period.isnull
    /\ last.old.xmin = xactNo
    /\ ~failed

\* the history relation has no column of the name the trigger gives
HistoryLacksPeriodColumn ==
    SPI_fnumber(catalog.history_tupdesc, catalog.period_attname) < 0

(***************************************************************************)
(* C22: every update or delete that reaches the archival (it adds a        *)
(* history row or fails in the rebuild of the cache entry) while the       *)
(* history relation has no column of the name the trigger gives as its     *)
(* period column ends in the error for a history relation without the      *)
(* period column.                                                          *)
(***************************************************************************)
C22_MissingHistoryPeriodAlwaysFails ==
    [][/\ last'.op \in {"UPDATE", "DELETE"}
       /\ ReachesCache
       /\ HistoryLacksPeriodColumn
       => last'.status = NoHistoryPeriodError]_vars

(***************************************************************************)
(* C23: whenever a statement adjusts the closing time (it raises the       *)
(* WARNING, having applied next_timestamp to the stored lower bound), the  *)
(* value next_timestamp returns is the lower bound plus one and is greater *)
(* than the lower bound, and the statement archives the old row with a     *)
(* period that is neither empty nor inverted.                              *)
(***************************************************************************)
C23_NextTimestampIsGreater ==
    [][last'.warning =>
         LET ts == row.tuple.period.lower.val IN
         /\ next_timestamp(ts) = ts + 1
         /\ next_timestamp(ts) > ts
         /\ last'.status = Ok
         /\ Len(last'.rows) = 1
         /\ ~last'.rows[1].period.isnull /\ ~last'.rows[1].period.empty
         /\ last'.rows[1].period.lower.val = ts
         /\ last'.rows[1].period.upper.val > ts]_vars

\* the ids of the nesting levels in progress
ActiveLevels == {subStack[i] : i \in 1 .. Len(subStack)}

(***************************************************************************)
(* C24: in every state the stack is not empty and its bottom element       *)
(* carries the sentinel level; every element above the bottom carries the  *)
(* id of a nesting level in progress, and the ids strictly decrease from   *)
(* the top to the bottom, so no two elements carry the same level.         *)
(***************************************************************************)
C24_StackIsOrderedOverRoot ==
    /\ Len(temporal_contexts) >= 1
    /\ Root(temporal_contexts).subid = InvalidSubTransactionId
    /\ \A i \in 1 .. Len(temporal_contexts) - 1 :
          /\ temporal_contexts[i].subid \in ActiveLevels
          /\ temporal_contexts[i].subid > temporal_contexts[i + 1].subid
    /\ \A i, j \in 1 .. Len(temporal_contexts) :
          i # j => temporal_contexts[i].subid # temporal_contexts[j].subid

\* three contexts over the root after a subtransaction's commit relabelled
\* one, with a nesting level in progress that has no context
C24_Witness ==
    /\ lastEvent.event = "SUBXACT_EVENT_COMMIT_SUB"
    /\ Head(lastEvent.before).subid = lastEvent.levels[1]
    /\ lastEvent.before[2].subid # lastEvent.levels[2]
    /\ Len(temporal_contexts) >= 3
    /\ Len(subStack) > Len(temporal_contexts) - 1

(***************************************************************************)
(* C27: an outer commit or abort finds on the stack the root alone or one  *)
(* context over the root, so the element beneath a popped context carries  *)
(* the sentinel level, and it leaves the root alone on the stack.          *)
(***************************************************************************)
C27_OuterEndLeavesRootAlone ==
    [][XactCommit \/ XactAbort =>
         /\ Head(temporal_contexts).subid # InvalidSubTransactionId =>
              /\ Len(temporal_contexts) = 2
              /\ Head(temporal_contexts).subid = TopSubTransactionId
              /\ temporal_contexts[2].subid = InvalidSubTransactionId
         /\ Head(temporal_contexts).subid = InvalidSubTransactionId =>
              Len(temporal_contexts) = 1
         /\ Len(temporal_contexts') = 1
         /\ Head(temporal_contexts').subid = InvalidSubTransactionId]_vars

\* an outer commit popped the transaction's context, which holds the last
\* of at least two surviving set_system_time calls
C27_Witness ==
    /\ lastEvent.event = "XACT_EVENT_COMMIT"
    /\ Len(lastEvent.before) = 2
    /\ Len(temporal_contexts) = 1
    /\ ~inXact
    /\ Len(setLog) >= 2

\* an outer abort popped the transaction's context
C27_WitnessAbort ==
    /\ lastEvent.event = "XACT_EVENT_ABORT"
    /\ Len(lastEvent.before) = 2
    /\ Len(temporal_contexts) = 1
    /\ ~inXact

(***************************************************************************)
(* C28: inside a transaction the context get_current_temporal_context      *)
(* hands out for writing carries the active level, which is not the        *)
(* sentinel, and is not the bottom element of the stack; the root keeps    *)
(* the sentinel level in every step, and a step that changes the root's    *)
(* mode or time is an outer commit that found a context over the root.     *)
(***************************************************************************)
C28_RootIsWrittenOnlyByOuterCommit ==
    [][/\ inXact =>
            LET cursubid == GetCurrentSubTransactionId
                after == get_current_temporal_context(temporal_contexts, TRUE,
                                                      cursubid)
            IN  /\ cursubid # InvalidSubTransactionId
                /\ Head(after).subid = cursubid
                /\ Len(after) >= 2
                /\ Root(after) = Root(temporal_contexts)
       /\ Root(temporal_contexts').subid = InvalidSubTransactionId
       /\ Visible(Root(temporal_contexts')) # Visible(Root(temporal_contexts)) =>
            /\ XactCommit
            /\ Head(temporal_contexts).subid # InvalidSubTransactionId
            /\ Visible(Root(temporal_contexts')) = Visible(Head(temporal_contexts))]_vars

\* the first write of a transaction that began under a committed time: the
\* root keeps that time and another is held above it
C28_Witness ==
    /\ lastEvent.event = "set_system_time"
    /\ Len(lastEvent.before) = 1
    /\ Len(temporal_contexts) = 2
    /\ Root(temporal_contexts) = Root(lastEvent.before)
    /\ Root(temporal_contexts).system_time_mode = UserDefined
    /\ Head(temporal_contexts).system_time_mode = UserDefined
    /\ Head(temporal_contexts).system_time # Root(temporal_contexts).system_time

\* the nesting depths (1: the transaction, 2..: its subtransactions) that own
\* a surviving set_system_time call, their own or a committed child's
WrittenLevels == {setLog[i].lvl : i \in 1 .. Len(setLog)} \ {0}

(***************************************************************************)
(* C29: in every state the mode and time the lazy stack makes visible are  *)
(* those on top of the eager stack, which holds one element per nesting    *)
(* level in progress over the root's, and a read of 'now' returns the same *)
(* value from both; the lazy stack holds at most one context for every     *)
(* level in progress that owns a surviving write, over the root.           *)
(***************************************************************************)
C29_LazyStackRefinesEager ==
    /\ Len(eager) = 1 + Len(subStack)
    /\ Visible(Head(temporal_contexts)) = Head(eager)
    /\ inXact =>
          get_system_time(temporal_contexts, xactStartTs,
                          GetCurrentSubTransactionId) = EagerNow
    /\ Len(temporal_contexts) <= 1 + Cardinality(WrittenLevels)

\* four nesting levels in progress, two of them with a context, under an
\* explicit time read in a level without one
C29_Witness ==
    /\ lastEvent.event = "get_system_time"
    /\ Len(subStack) = 4
    /\ Len(eager) = 5
    /\ Len(temporal_contexts) = 3
    /\ Head(temporal_contexts).subid # subStack[1]
    /\ Head(eager)[1] = UserDefined

\* the entry maps the versioned relation's attribute of this name to the
\* history relation's attribute of the same name, by its own snapshots
MapsColumn(entry, attname) ==
    \E n \in 1 .. Len(entry.attnums) :
       /\ entry.tupdesc.atts[entry.attnums[n]].attname = attname
       /\ entry.history_tupdesc.atts[entry.insert_history_plan.history_attnums[n]].attname
              = attname

(***************************************************************************)
(* C30: after every step an entry that is marked valid has at least one    *)
(* mapped attribute, a prepared insert, both snapshots and the history     *)
(* relation's identity, so a valid entry with no mapped attribute does not *)
(* occur; and every step that leaves a newly built valid entry leaves in   *)
(* its mapping the period column the trigger named for that rebuild,       *)
(* paired with the history relation's column of that name.                 *)
(***************************************************************************)
C30_ValidEntryMapsPeriodColumn ==
    [][versioning_cache'.found /\ versioning_cache'.natts # -1 =>
         /\ versioning_cache'.natts >= 1
         /\ CachePopulated(versioning_cache')
         /\ versioning_cache'.history_relid \in {HistoryRelid, OtherHistoryRelid}
         /\ \E attname \in {PeriodColumn, AltPeriodColumn} :
               MapsColumn(versioning_cache', attname)
         /\ versioning_cache' # versioning_cache =>
               /\ MapsColumn(versioning_cache', catalog.period_attname)
               /\ Mapped(versioning_cache',
                         SPI_fnumber(catalog.tupdesc, catalog.period_attname))]_vars

\* a valid entry whose only mapped attribute is the period column: the data
\* column was renamed before the rebuild
C30_Witness ==
    /\ versioning_cache.found
    /\ versioning_cache.natts = 1
    /\ versioning_cache.attnums = <<2>>
    /\ MapsColumn(versioning_cache, PeriodColumn)
    /\ ~versioning_cache.insert_history_plan.null
    /\ last.rows # << >>

\* the table as it was when the transaction in progress began
AtXactBegin == saved[Len(saved)]

\* the transaction in progress has written the row at a level that has not
\* been rolled back
WrittenByXact ==
    \/ row.state = "deleted" /\ AtXactBegin.row.state = "live"
    \/ row.state = "live" /\ row.tuple.xmin = xactNo

(***************************************************************************)
(* C25: when a transaction commits that found the row alive and has        *)
(* updated or deleted it, at whatever subtransaction levels and however    *)
(* often, rolled-back levels apart, the history relation holds exactly one *)
(* row more than when the transaction began: the row's image of that time, *)
(* its data and the lower bound of its period.  Before the commit, too,    *)
(* the transaction never has more than that one row in the history         *)
(* relation.                                                               *)
(***************************************************************************)
C25_OneHistoryRowPerTransaction ==
    [][/\ inXact /\ AtXactBegin.row.state = "live"
          => Len(history) <= Len(AtXactBegin.history) + 1
       /\ XactCommit /\ AtXactBegin.row.state = "live" /\ WrittenByXact
          => /\ Len(history') = Len(AtXactBegin.history) + 1
             /\ SubSeq(history', 1, Len(AtXactBegin.history)) = AtXactBegin.history
             /\ history'[Len(history')].data = AtXactBegin.row.tuple.data
             /\ history'[Len(history')].period.lower
                    = AtXactBegin.row.tuple.period.lower]_vars

\* after the second transaction's commit: it found the row alive and deleted
\* it, and the history relation holds one row
C25_Witness ==
    /\ ~inXact /\ xactNo = 2
    /\ row.state = "deleted"
    /\ Len(history) = 1
    /\ history[1].data = "a"

\* an update in a subtransaction, after an earlier subtransaction has ended,
\* of the row the transaction has already updated: no second history row
C25_WitnessNested ==
    /\ inXact /\ Len(subStack) = 2 /\ subCounter = NestMaxSubId
    /\ AtXactBegin.row.state = "live"
    /\ last.op = "UPDATE" /\ last.status = Ok
    /\ last.old.xmin = xactNo /\ last.rows = << >>
    /\ Len(history) = Len(AtXactBegin.history) + 1

\* the second transaction commits its updates with the one history row
C25_WitnessCommit ==
    /\ ~inXact /\ xactNo = 2
    /\ row.state = "live" /\ row.tuple.xmin = 2 /\ row.tuple.data = "b"
    /\ Len(history) = 1

\* the stored lower bound of the row's period
StoredLower == row.tuple.period.lower.val

\* what an UPDATE at 'now' of the row another transaction committed does
\* under the adjust argument: [lower, now) when 'now' is after the stored
\* lower bound; otherwise an ERROR with "false" and [lower, lower + 1) with
\* "true"
ClosedAt(now, adjust) ==
    IF now > StoredLower
    THEN /\ last'.status = Ok
         /\ history' = Append(history, HistoryRow(row.tuple, now))
         /\ row'.tuple.period = OpenEnded(now)
    ELSE IF adjust = "false"
    THEN /\ last'.status # Ok
         /\ UNCHANGED tableVars
    ELSE /\ last'.status = Ok
         /\ StoredLower + 1 \in Timestamps
         /\ history' = Append(history, HistoryRow(row.tuple, StoredLower + 1))
         /\ row'.tuple.period = OpenEnded(StoredLower + 1)

\* two periods with finite bounds that have a timestamp in common
Overlap(p, q) == p.lower.val < q.upper.val /\ q.lower.val < p.upper.val

\* every history row's period is a non-empty interval of finite bounds, and
\* no two of them overlap
HistoryDisjoint ==
    /\ \A i \in 1 .. Len(history) :
          /\ ~history[i].period.isnull /\ ~history[i].period.empty
          /\ ~history[i].period.lower.infinite
          /\ ~history[i].period.upper.infinite
          /\ history[i].period.lower.val < history[i].period.upper.val
    /\ \A i, j \in 1 .. Len(history) :
          i # j => ~Overlap(history[i].period, history[j].period)

(***************************************************************************)
(* C26: with two backends whose transactions overlap, an UPDATE by either  *)
(* of the row the other's transaction committed closes the old image at    *)
(* the updating transaction's start time when that is after the stored     *)
(* lower bound; when it is not (the other transaction started later and    *)
(* committed first), the UPDATE fails with adjust "false" and archives     *)
(* [lower, lower + 1) with adjust "true".  After every step, every history *)
(* row has its lower bound strictly below its upper bound and no two       *)
(* history rows overlap.                                                   *)
(***************************************************************************)
C26_LateWriterIsAdjusted ==
    [][/\ \A data \in UpdateData, adjust \in NestAdjustArgs :
             /\ SessionUpdate(data, adjust) /\ row.tuple.xmin # xactNo
                   => ClosedAt(xactStartTs, adjust)
             /\ PeerUpdate(data, adjust) /\ row.tuple.xmin # peer.xid
                   => ClosedAt(peer.startTs, adjust)
       /\ HistoryDisjoint']_vars

\* the session's transaction began at 0; the peer's, begun at 1, updated the
\* row and committed while the session's was in progress; the session's
\* UPDATE then found the stored lower bound 1 and archived [1, 2)
C26_Witness ==
    /\ inXact /\ xactStartTs = 0
    /\ peer.during = xactNo
    /\ last.op = "UPDATE" /\ last.status = Ok /\ last.warning
    /\ last.old.xmin = peer.xid
    /\ last.old.period = OpenEnded(1)
    /\ Len(history) = 2
    /\ history[2].period = Range(RangeBound(1, FALSE, TRUE, TRUE),
                                 RangeBound(2, FALSE, FALSE, FALSE))
    /\ row.tuple.period = OpenEnded(2)

\* the same, the session's trigger declared with adjust "false": the UPDATE
\* fails
C26_WitnessFails ==
    /\ inXact /\ xactStartTs = 0 /\ failed
    /\ peer.during = xactNo
    /\ last.op = "UPDATE" /\ last.status # Ok
    /\ last.old.xmin = peer.xid
    /\ last.old.period = OpenEnded(1)
    /\ Len(history) = 1

\* the peer is the late writer: it began at 0, the session's transaction
\* began at 1 and committed its update first
C26_WitnessPeerLate ==
    /\ peer.inXact /\ peer.startTs = 0 /\ peer.wrote
    /\ last.op = "UPDATE" /\ last.status = Ok /\ last.warning
    /\ last.old.xmin = 2
    /\ last.old.period = OpenEnded(1)
    /\ row.tuple.xmin = peer.xid
    /\ row.tuple.period = OpenEnded(2)

====
